---- MODULE Spec2Model ----
(***************************************************************************)
(* Verification model of the newsFinder extraction orchestrator            *)
(* (src/stream_scraping_pipeline.py).                                      *)
(*                                                                         *)
(* The module holds one group of variables per subsystem and one           *)
(* specification per subsystem; a specification leaves the variables of    *)
(* the other subsystems at their idle value.                               *)
(*   SpecWriter   Writer: queue, writer thread, close                      *)
(*   SpecStats    StatsCollector: counters and the summary file            *)
(*   SpecSem      site pool, target pools and the semaphores of _cli       *)
(*   SpecScrape   target workers, proxy promotion and process_site         *)
(*   SpecRun      SpecScrape when every fetch has one fixed response       *)
(*   SpecSites    stream reader, site_q and the site loop of _cli          *)
(*   SpecTargets  selector detection of a leaf and _normalize_targets       *)
(*   SpecDiscovery      sitemap discovery of one site, fallback probes        *)
(*   SpecDiscoveryPair  sitemap discovery of two sites at the same time       *)
(*   SpecFilters  sitemap filters, leaf sampling and reply parsers as calls   *)
(*   SpecExpand   recursive expansion of the sitemaps of robots.txt           *)
(*   SpecExpandFair  the same, when the expansion is never held up           *)
(*   SpecSelectors  CSS sections and fields of sitemap entries as calls       *)
(*   SpecDiag     diagnostics flags of the heuristic fallback, two site jobs  *)
(*   SpecWriterFailing  the Writer when a write to the output file can fail  *)
(*   SpecWriterFailingFair, SpecWriterFair  the Writer under fair scheduling *)
(*   SpecSitesFair  SpecSites when no thread is held up for ever            *)
(***************************************************************************)
EXTENDS Integers, Sequences, FiniteSets, Bags, TLC

(***************************************************************************)
(* Bounds of the model                                                     *)
(***************************************************************************)
MaxRecords == 3
MaxBatch == 2
MaxSites == 2
MaxItems == 1
MaxInterval == 2
MaxCap == 2
MaxRows == 3
MaxFetches == 2
MaxChunks == 4
MaxMatches == 2
MaxNodes == 2
MaxDepth == 2
MaxCandidates == 2
MaxText == 2
MaxProbes == 2

(***************************************************************************)
(* Helpers                                                                 *)
(***************************************************************************)
Range(s) == {s[i] : i \in 1..Len(s)}

(***************************************************************************)
(* Writer (class Writer)                                                   *)
(***************************************************************************)
VARIABLES
    w_q,            \* Writer.q: records put and not yet taken
    w_unfinished,   \* Queue.unfinished_tasks of Writer.q (put minus task_done)
    w_stop,         \* Writer._stop
    w_f,            \* Writer._f: "open", "none" (open failed) or "closed"
    w_batch_size,   \* Writer._batch_size
    w_pc,           \* position of the writer thread in _run
    w_buffer,       \* local buffer of _run
    w_i,            \* index in buffer of the record _run writes next
    w_fbuf,         \* records written to _f and not flushed
    w_disk,         \* lines of the output file
    w_synced,       \* number of lines of the output file that were fsynced
    w_submitted,    \* records for which submit returned
    w_producers,    \* "running" while site workers may submit, then "done"
    w_close         \* position of the closing thread in close

writerVars == <<w_q, w_unfinished, w_stop, w_f, w_batch_size, w_pc, w_buffer, w_i,
                w_fbuf, w_disk, w_synced, w_submitted, w_producers, w_close>>

VARIABLES
    s_pc,             \* position of the main thread (0) and of each site worker
    s_local,          \* the summary a thread built and has not written yet
    s_file,           \* the summary file: <<>> when empty, <<doc>> when complete
    s_total_sites,    \* StatsCollector.total_sites_processed
    s_total_articles, \* StatsCollector.total_articles
    s_by_source,      \* StatsCollector.articles_by_source
    s_by_approach,    \* StatsCollector.sites_by_approach
    s_last_snapshot,  \* StatsCollector._last_snapshot_sites_written
    s_interval        \* args.summary_interval_sites

statsVars == <<s_pc, s_local, s_file, s_total_sites, s_total_articles, s_by_source,
               s_by_approach, s_last_snapshot, s_interval>>

VARIABLES
    c_caps,          \* capacity of sitemap_sem, css_sem, http_sem and of a domain semaphore
    c_site_pool,     \* max_workers of site_pool
    c_target_pool,   \* max_workers of the target pool of process_site
    c_class_avail,   \* value of sitemap_sem, css_sem and http_sem
    c_dom_avail,     \* value of every domain Semaphore object created so far
    c_domain_sems,   \* domain_sems: the object stored for a domain, 0 when none
    c_spc,           \* position of each site worker in process_site
    c_sk,            \* index of the target the site worker submits next
    c_tpc,           \* position of each target worker
    c_holds,         \* the semaphores a target worker holds, in acquisition order
    c_dsem,          \* the domain Semaphore object bound to a target's closure
    c_render         \* a headless-browser render is in flight in the target worker

semVars == <<c_caps, c_site_pool, c_target_pool, c_class_avail, c_dom_avail,
             c_domain_sems, c_spc, c_sk, c_tpc, c_holds, c_dsem, c_render>>

VARIABLES
    p_type,        \* the type of each target of the stream
    p_direct,      \* the outcomes a direct fetch of each target can have
    p_probe,       \* the outcomes _http_probe of each target's URL can have
    p_browser,     \* the outcomes a browser/proxy fetch of each target can have
    p_site_pool,   \* max_workers of site_pool (args.site_concurrency)
    p_promoted,    \* proxy_hosts_promoted
    p_promotions,  \* history: the hosts for which _promote_host has completed
    p_spc,         \* position of each site worker in process_site
    p_tpc,         \* position of each target worker in _scrape_*_target
    p_trace,       \* history: the fetches and probes a target worker has made
    p_probed,      \* local `probe` of a target worker
    p_items,       \* the list a target worker returns
    p_failure,     \* history: "timeout" when a fetch of the target timed out,
                   \* "raised" when the target's future holds an exception
    p_after,       \* history: the target started after a promotion of its host
    p_by_source,   \* items_by_source of each process_site call
    p_exc,         \* exception_types of each process_site call
    p_reasons,     \* reasons of each process_site call
    p_written      \* the bag of records handed to writer.submit

scrapeVars == <<p_type, p_direct, p_probe, p_browser, p_site_pool, p_promoted, p_promotions,
                p_spc, p_tpc, p_trace, p_probed, p_items, p_failure, p_after,
                p_by_source, p_exc, p_reasons, p_written>>

VARIABLES
    r_stream,      \* the rows of the stream file: the site URL of each row
    r_allowed,     \* the site URLs _is_allowed accepts
    r_pool,        \* max_workers of site_pool (args.site_concurrency)
    r_pos,         \* index of the row the reader thread reads next
    r_enqueued,    \* enqueued_sites
    r_processed,   \* processed_sites
    r_q,           \* site_q
    r_stop_reader, \* stop_reader
    r_main,        \* position of the main thread in the site loop of _cli
    r_futures,     \* the futures of site_pool, in submission order
    r_state,       \* history: the state of each site URL
    r_started      \* history: the number of process_site calls for each site URL

sitesVars == <<r_stream, r_allowed, r_pool, r_pos, r_enqueued, r_processed, r_q,
               r_stop_reader, r_main, r_futures, r_state, r_started>>

VARIABLES
    n_llm,           \* the reply of the LLM for the leaf sitemap
    n_root,          \* what the basic detector finds at the leaf sitemap
    n_tags,          \* the tags of the first <url> element of the leaf sitemap
    n_require_title, \* SITEMAP_REQUIRE_ANY_TITLE
    n_pc,            \* position in _detect_one and then in _normalize_targets
    n_detected,      \* local `detected` of _detect_one
    n_record,        \* detectedSelectors of the leaf selector record of the row
    n_targets        \* the targets _normalize_targets returns

targetsVars == <<n_llm, n_root, n_tags, n_require_title, n_pc, n_detected, n_record,
                 n_targets>>

VARIABLES
    d_seed,           \* the URL each _site_job was given
    d_stack,          \* the calls of test_recursive_expansion of each job, innermost last
    d_budget,         \* _BROWSER_RETRY_BUDGET, per host
    d_browser,        \* browser fetches made by the fallback probes so far, per host
    d_robots_browser, \* browser fetches of robots.txt made so far, per host
    d_robots_missed,  \* a robots.txt that answered 3xx, 401 or 403 got no browser fetch
    d_trace,          \* the discovery steps run for the URL of each job, in order
    d_result,         \* the stats each _site_job streams as `result`
    d_site            \* `site` of the item written from the row of each job

discoveryVars == <<d_seed, d_stack, d_budget, d_browser, d_robots_browser,
                   d_robots_missed, d_trace, d_result, d_site>>

\* Sitemap filters, leaf sampling and detector replies as functions of an input.
VARIABLES
    f_in,     \* the arguments of the call, tagged with the function called
    f_out     \* <<>> before the call, <<function, result>> after it
filterVars == <<f_in, f_out>>

\* Recursive expansion of the sitemaps of robots.txt (test_recursive_expansion).
VARIABLES
    x_robots,      \* the sitemap URLs of robots.txt
    x_web,         \* what each sitemap URL answers
    x_max_depth,   \* max_depth
    x_phase,       \* "filter", "expand", "done"
    x_sitemaps,    \* `sitemaps` still to be expanded
    x_stack,       \* the calls of expand_recursive in progress
    x_fetched,     \* history: the fetches of expand_recursive, with their depth
    x_rejected,    \* stats["robotsTxt"]["rejected"]
    x_children,    \* stats["recursiveExpansion"]: the lists of rejected children
    x_all_leaves,  \* all_leaves
    x_lastmod,     \* leaf_lastmod_map
    x_date_kept,   \* date_kept of the final filtering
    x_log          \* history: the URLs rejected by a filter
expandVars == <<x_robots, x_web, x_max_depth, x_phase, x_sitemaps, x_stack,
                x_fetched, x_rejected, x_children, x_all_leaves, x_lastmod,
                x_date_kept, x_log>>

\* The diagnostics flags of the heuristic fallback (_DIAG_FB_*) and the site
\* jobs of main() that run _fallback_discover_sitemaps.
VARIABLES
    g_workers,   \* site_workers of main (args.site_concurrency)
    g_flags,     \* _DIAG_FB_BLOCK_DETECTED, _DIAG_FB_BROWSER_ATTEMPTED, _DIAG_FB_BROWSER_SUCCESS
    g_pc,        \* position of each site job in the branch without robots.txt
    g_probes,    \* the probes each job has made in its fallback discovery
    g_own,       \* history: what the probes of the job itself have shown
    g_recorded   \* stats["diagnostics"] of the job: <<>> or <<flags>>
diagVars == <<g_workers, g_flags, g_pc, g_probes, g_own, g_recorded>>

vars == <<writerVars, statsVars, semVars, scrapeVars, sitesVars, targetsVars, discoveryVars, filterVars, expandVars, diagVars>>

nonWriterVars == <<statsVars, semVars, scrapeVars, sitesVars, targetsVars, discoveryVars, filterVars, expandVars, diagVars>>
nonStatsVars == <<writerVars, semVars, scrapeVars, sitesVars, targetsVars, discoveryVars, filterVars, expandVars, diagVars>>
nonSemVars == <<writerVars, statsVars, scrapeVars, sitesVars, targetsVars, discoveryVars, filterVars, expandVars, diagVars>>
nonSitesVars == <<writerVars, statsVars, semVars, scrapeVars, targetsVars, discoveryVars, filterVars, expandVars, diagVars>>
nonScrapeVars == <<writerVars, statsVars, semVars, sitesVars, targetsVars, discoveryVars, filterVars, expandVars, diagVars>>
nonDiscoveryVars == <<writerVars, statsVars, semVars, scrapeVars, sitesVars, targetsVars, filterVars, expandVars, diagVars>>
nonTargetsVars == <<writerVars, statsVars, semVars, scrapeVars, sitesVars, discoveryVars, filterVars, expandVars, diagVars>>
nonExpandVars == <<writerVars, statsVars, semVars, scrapeVars, sitesVars, targetsVars, discoveryVars, filterVars, diagVars>>
nonFilterVars == <<writerVars, statsVars, semVars, scrapeVars, sitesVars, targetsVars, discoveryVars, expandVars, diagVars>>
nonDiagVars == <<writerVars, statsVars, semVars, scrapeVars, sitesVars, targetsVars, discoveryVars, filterVars, expandVars>>


Records == 1..MaxRecords

\* Writer.__init__: the empty queue, the cleared event, the writer at the top of
\* _run.
WriterConstructed ==
    /\ w_q = <<>>
    /\ w_unfinished = 0
    /\ w_stop = FALSE
    /\ w_pc = "loop"
    /\ w_buffer = <<>>
    /\ w_i = 1
    /\ w_fbuf = <<>>
    /\ w_disk = <<>>
    /\ w_synced = 0
    /\ w_submitted = {}
    /\ w_producers = "running"
    /\ w_close = "idle"

\* Writer.start: the output file is truncated and opened once, or _f stays None.
WriterStart ==
    /\ WriterConstructed
    /\ w_f \in {"open", "none"}
    /\ w_batch_size \in 1..MaxBatch

\* The Writer left alone by the specifications of the other subsystems.
WriterIdle ==
    /\ WriterConstructed
    /\ w_f = "open"
    /\ w_batch_size = 1

\* Writer.submit, called by a site worker for record r: Queue.put.
Submit(r) ==
    /\ w_producers = "running"
    /\ r \notin w_submitted
    /\ w_q' = Append(w_q, r)
    /\ w_unfinished' = w_unfinished + 1
    /\ w_submitted' = w_submitted \cup {r}
    /\ UNCHANGED <<w_stop, w_f, w_batch_size, w_pc, w_buffer, w_i, w_fbuf, w_disk,
                   w_synced, w_producers, w_close>>
    /\ UNCHANGED nonWriterVars

\* The site pool has shut down: no site worker submits any more.
ProducersDone ==
    /\ w_producers = "running"
    /\ w_producers' = "done"
    /\ UNCHANGED <<w_q, w_unfinished, w_stop, w_f, w_batch_size, w_pc, w_buffer, w_i,
                   w_fbuf, w_disk, w_synced, w_submitted, w_close>>
    /\ UNCHANGED nonWriterVars

\* _run: the test of the while loop.
RunLoopTest ==
    /\ w_pc = "loop"
    /\ w_pc' = IF w_stop THEN "exit" ELSE "get"
    /\ UNCHANGED <<w_q, w_unfinished, w_stop, w_f, w_batch_size, w_buffer, w_i, w_fbuf,
                   w_disk, w_synced, w_submitted, w_producers, w_close>>
    /\ UNCHANGED nonWriterVars

\* _run: q.get(timeout=0.2), buffer.append, q.task_done; Empty is passed over.
RunGet ==
    /\ w_pc = "get"
    /\ IF w_q # <<>>
       THEN /\ w_buffer' = Append(w_buffer, Head(w_q))
            /\ w_q' = Tail(w_q)
            /\ w_unfinished' = w_unfinished - 1
       ELSE UNCHANGED <<w_buffer, w_q, w_unfinished>>
    /\ w_pc' = "decide"
    /\ UNCHANGED <<w_stop, w_f, w_batch_size, w_i, w_fbuf, w_disk, w_synced,
                   w_submitted, w_producers, w_close>>
    /\ UNCHANGED nonWriterVars

\* should_flush of _run; elapsed says whether flush_interval_sec has passed.
ShouldFlush(buffer, batch_size, elapsed) ==
    Len(buffer) >= batch_size \/ (buffer # <<>> /\ elapsed)

\* _run: the flush decision; without a flush the loop continues.
RunDecide ==
    /\ w_pc = "decide"
    /\ \E elapsed \in BOOLEAN :
          IF ShouldFlush(w_buffer, w_batch_size, elapsed)
          THEN w_pc' = "write" /\ w_i' = 1
          ELSE w_pc' = "loop" /\ UNCHANGED w_i
    /\ UNCHANGED <<w_q, w_unfinished, w_stop, w_f, w_batch_size, w_buffer, w_fbuf,
                   w_disk, w_synced, w_submitted, w_producers, w_close>>
    /\ UNCHANGED nonWriterVars

\* _run: one record of the batch. _f.write buffers it; without an open _f
\* (None, or closed: write raises) _append_jsonl appends and fsyncs the line.
RunWrite ==
    /\ w_pc = "write"
    /\ w_i <= Len(w_buffer)
    /\ IF w_f = "open"
       THEN /\ w_fbuf' = Append(w_fbuf, w_buffer[w_i])
            /\ UNCHANGED <<w_disk, w_synced>>
       ELSE /\ w_disk' = Append(w_disk, w_buffer[w_i])
            /\ w_synced' = Len(w_disk) + 1
            /\ UNCHANGED w_fbuf
    /\ w_i' = w_i + 1
    /\ UNCHANGED <<w_q, w_unfinished, w_stop, w_f, w_batch_size, w_pc, w_buffer,
                   w_submitted, w_producers, w_close>>
    /\ UNCHANGED nonWriterVars

\* _run: _f.flush and os.fsync after the batch, then buffer.clear (finally).
RunFlush ==
    /\ w_pc = "write"
    /\ w_i > Len(w_buffer)
    /\ IF w_f = "open"
       THEN /\ w_disk' = w_disk \o w_fbuf
            /\ w_fbuf' = <<>>
            /\ w_synced' = Len(w_disk) + Len(w_fbuf)
       ELSE UNCHANGED <<w_disk, w_fbuf, w_synced>>
    /\ w_buffer' = <<>>
    /\ w_i' = 1
    /\ w_pc' = "loop"
    /\ UNCHANGED <<w_q, w_unfinished, w_stop, w_f, w_batch_size, w_submitted,
                   w_producers, w_close>>
    /\ UNCHANGED nonWriterVars

\* The thread may block for long only in file input/output.
InFileIO == w_pc = "write"

\* close: q.join() returns once every put was matched by a task_done.
CloseJoinQueue ==
    /\ w_close = "idle"
    /\ w_producers = "done"
    /\ w_unfinished = 0
    /\ w_close' = "set_stop"
    /\ UNCHANGED <<w_q, w_unfinished, w_stop, w_f, w_batch_size, w_pc, w_buffer, w_i,
                   w_fbuf, w_disk, w_synced, w_submitted, w_producers>>
    /\ UNCHANGED nonWriterVars

\* close: _stop.set().
CloseSetStop ==
    /\ w_close = "set_stop"
    /\ w_stop' = TRUE
    /\ w_close' = "join_thread"
    /\ UNCHANGED <<w_q, w_unfinished, w_f, w_batch_size, w_pc, w_buffer, w_i, w_fbuf,
                   w_disk, w_synced, w_submitted, w_producers>>
    /\ UNCHANGED nonWriterVars

\* close: _thr.join(timeout=5) returns because the thread has ended.
CloseJoinThread ==
    /\ w_close = "join_thread"
    /\ w_pc = "exit"
    /\ w_close' = "flush"
    /\ UNCHANGED <<w_q, w_unfinished, w_stop, w_f, w_batch_size, w_pc, w_buffer, w_i,
                   w_fbuf, w_disk, w_synced, w_submitted, w_producers>>
    /\ UNCHANGED nonWriterVars

\* close: _thr.join(timeout=5) returns after five seconds, the thread being
\* still in the file input/output of a batch.
CloseJoinTimeout ==
    /\ w_close = "join_thread"
    /\ InFileIO
    /\ w_close' = "flush"
    /\ UNCHANGED <<w_q, w_unfinished, w_stop, w_f, w_batch_size, w_pc, w_buffer, w_i,
                   w_fbuf, w_disk, w_synced, w_submitted, w_producers>>
    /\ UNCHANGED nonWriterVars

\* close: flush, fsync and close _f when it was opened.
CloseFile ==
    /\ w_close = "flush"
    /\ IF w_f = "open"
       THEN /\ w_disk' = w_disk \o w_fbuf
            /\ w_fbuf' = <<>>
            /\ w_synced' = Len(w_disk) + Len(w_fbuf)
            /\ w_f' = "closed"
       ELSE UNCHANGED <<w_disk, w_fbuf, w_synced, w_f>>
    /\ w_close' = "done"
    /\ UNCHANGED <<w_q, w_unfinished, w_stop, w_batch_size, w_pc, w_buffer, w_i,
                   w_submitted, w_producers>>
    /\ UNCHANGED nonWriterVars

\* The steps of the Writer when no join runs into its timeout.
NextWriterJoined ==
    \/ \E r \in Records : Submit(r)
    \/ ProducersDone
    \/ RunLoopTest
    \/ RunGet
    \/ RunDecide
    \/ RunWrite
    \/ RunFlush
    \/ CloseJoinQueue
    \/ CloseSetStop
    \/ CloseJoinThread
    \/ CloseFile

NextWriter ==
    \/ NextWriterJoined
    \/ CloseJoinTimeout

\* _run: _append_jsonl raises for a record of the batch (the output path
\* cannot be opened, the disk is full).  The try of _run has a finally and no
\* except: the buffer is cleared and the exception ends the writer thread.
RunAppendRaises ==
    /\ w_pc = "write"
    /\ w_i <= Len(w_buffer)
    /\ w_buffer' = <<>>
    /\ w_i' = 1
    /\ w_pc' = "raised"
    /\ UNCHANGED <<w_q, w_unfinished, w_stop, w_f, w_batch_size, w_fbuf, w_disk,
                   w_synced, w_submitted, w_producers, w_close>>
    /\ UNCHANGED nonWriterVars

\* close: _thr.join(timeout=5) returns at once, the thread having ended with
\* an exception.
CloseJoinEndedThread ==
    /\ w_close = "join_thread"
    /\ w_pc = "raised"
    /\ w_close' = "flush"
    /\ UNCHANGED <<w_q, w_unfinished, w_stop, w_f, w_batch_size, w_pc, w_buffer, w_i,
                   w_fbuf, w_disk, w_synced, w_submitted, w_producers>>
    /\ UNCHANGED nonWriterVars

\* The steps of the writer thread and of close that are taken whenever they
\* can be: neither thread is held up by the scheduler.
WriterThreadSteps == RunLoopTest \/ RunGet \/ RunDecide \/ RunWrite \/ RunFlush

CloseSteps ==
    \/ CloseJoinQueue
    \/ CloseSetStop
    \/ CloseJoinThread
    \/ CloseJoinTimeout
    \/ CloseJoinEndedThread
    \/ CloseFile

\* The steps of the Writer when a write to the output file can fail.
NextWriterFailing ==
    \/ NextWriter
    \/ RunAppendRaises
    \/ CloseJoinEndedThread

(***************************************************************************)
(* StatsCollector (class StatsCollector) and its callers in _cli           *)
(***************************************************************************)
Sources == {"sitemap", "css"}
Sites == 1..MaxSites
MainThread == 0
StatsThreads == {MainThread} \cup Sites

\* StatsCollector.__init__; the main thread is about to call start_global and
\* every site waits for its worker.
StatsConstructed ==
    /\ s_pc = [t \in StatsThreads |-> IF t = MainThread THEN "start_global" ELSE "idle"]
    /\ s_local = [t \in StatsThreads |-> <<>>]
    /\ s_file = <<>>
    /\ s_total_sites = 0
    /\ s_total_articles = 0
    /\ s_by_source = [src \in Sources |-> 0]
    /\ s_by_approach = [a \in {"sitemapOnly", "cssOnly", "both", "none"} |-> 0]
    /\ s_last_snapshot = 0

StatsStart ==
    /\ StatsConstructed
    /\ s_interval \in 0..MaxInterval

\* The StatsCollector left alone by the specifications of the other subsystems.
StatsIdle ==
    /\ StatsConstructed
    /\ s_interval = 1

\* The summary the collector would write now (totalDurationSec left out).
Summary ==
    [totalSitesProcessed |-> s_total_sites,
     totalArticles |-> s_total_articles,
     articlesBySource |-> s_by_source,
     sitesByApproach |-> s_by_approach]

\* start_global: the summary file is truncated.
StartGlobal ==
    /\ s_pc[MainThread] = "start_global"
    /\ s_file' = <<>>
    /\ s_pc' = [s_pc EXCEPT ![MainThread] = "snap_build"]
    /\ UNCHANGED <<s_local, s_total_sites, s_total_articles, s_by_source, s_by_approach,
                   s_last_snapshot, s_interval>>
    /\ UNCHANGED nonStatsVars

\* write_summary_snapshot: the summary is built under the lock.
SnapshotBuild(t) ==
    /\ s_pc[t] = "snap_build"
    /\ s_local' = [s_local EXCEPT ![t] = <<Summary>>]
    /\ s_pc' = [s_pc EXCEPT ![t] = "snap_open"]
    /\ UNCHANGED <<s_file, s_total_sites, s_total_articles, s_by_source, s_by_approach,
                   s_last_snapshot, s_interval>>
    /\ UNCHANGED nonStatsVars

\* The content of the summary file once open(summary_path, 'w') has returned.
OpenedForWrite(file) == <<>>

\* write_summary_snapshot: open(summary_path, 'w'), outside the lock.
SnapshotOpen(t) ==
    /\ s_pc[t] = "snap_open"
    /\ s_file' = OpenedForWrite(s_file)
    /\ s_pc' = [s_pc EXCEPT ![t] = "snap_dump"]
    /\ UNCHANGED <<s_local, s_total_sites, s_total_articles, s_by_source, s_by_approach,
                   s_last_snapshot, s_interval>>
    /\ UNCHANGED nonStatsVars

\* write_summary_snapshot: json.dump reaches the file when the with block closes it.
SnapshotDump(t) ==
    /\ s_pc[t] = "snap_dump"
    /\ s_file' = s_local[t]
    /\ s_local' = [s_local EXCEPT ![t] = <<>>]
    /\ s_pc' = [s_pc EXCEPT ![t] = IF t = MainThread THEN "wait" ELSE "done"]
    /\ UNCHANGED <<s_total_sites, s_total_articles, s_by_source, s_by_approach,
                   s_last_snapshot, s_interval>>
    /\ UNCHANGED nonStatsVars

\* The approach category of record_site.
ApproachOf(used) ==
    IF "sitemap" \in used /\ "css" \in used THEN "both"
    ELSE IF "sitemap" \in used THEN "sitemapOnly"
    ELSE IF "css" \in used THEN "cssOnly"
    ELSE "none"

\* A record_site whose total counts the sitemap items alone.
RecordSiteCountersSitemapTotal(used, items) ==
    /\ s_total_sites' = s_total_sites + 1
    /\ s_total_articles' = s_total_articles + items["sitemap"]
    /\ s_by_source' = [src \in Sources |-> s_by_source[src] + items[src]]
    /\ s_by_approach' = [s_by_approach EXCEPT ![ApproachOf(used)] = @ + 1]

\* record_site, all of it under the lock.
RecordSiteCounters(used, items) ==
    /\ s_total_sites' = s_total_sites + 1
    /\ s_total_articles' = s_total_articles + items["sitemap"] + items["css"]
    /\ s_by_source' = [src \in Sources |-> s_by_source[src] + items[src]]
    /\ s_by_approach' = [s_by_approach EXCEPT ![ApproachOf(used)] = @ + 1]

\* The item counts a site can end with when the targets of `used` were run.
ItemCounts(used) ==
    {c \in [Sources -> 0..MaxItems] : \A src \in Sources : src \notin used => c[src] = 0}

\* process_site for a row without targets: record_site with no items, then return.
RecordSiteNoTargets(t) ==
    /\ t \in Sites
    /\ s_pc[MainThread] = "wait"
    /\ s_pc[t] = "idle"
    /\ RecordSiteCounters({}, [src \in Sources |-> 0])
    /\ s_pc' = [s_pc EXCEPT ![t] = "done"]
    /\ UNCHANGED <<s_local, s_file, s_last_snapshot, s_interval>>
    /\ UNCHANGED nonStatsVars

\* process_site for a row with targets, once its futures are drained: record_site.
RecordSite(t, used, items) ==
    /\ t \in Sites
    /\ s_pc[MainThread] = "wait"
    /\ s_pc[t] = "idle"
    /\ RecordSiteCounters(used, items)
    /\ s_pc' = [s_pc EXCEPT ![t] = "maybe"]
    /\ UNCHANGED <<s_local, s_file, s_last_snapshot, s_interval>>
    /\ UNCHANGED nonStatsVars

\* should_write of maybe_write_summary_snapshot.
ShouldWrite(total, last, interval) == total >= last + interval

\* maybe_write_summary_snapshot up to the call of write_summary_snapshot.
MaybeWriteSummarySnapshot(t) ==
    /\ s_pc[t] = "maybe"
    /\ IF s_interval > 0 /\ ShouldWrite(s_total_sites, s_last_snapshot, s_interval)
       THEN /\ s_last_snapshot' = s_total_sites
            /\ s_pc' = [s_pc EXCEPT ![t] = "snap_build"]
       ELSE /\ s_pc' = [s_pc EXCEPT ![t] = "done"]
            /\ UNCHANGED s_last_snapshot
    /\ UNCHANGED <<s_local, s_file, s_total_sites, s_total_articles, s_by_source,
                   s_by_approach, s_interval>>
    /\ UNCHANGED nonStatsVars

\* _cli, finally: write_summary builds the summary once every site worker is done.
WriteSummaryBuild ==
    /\ s_pc[MainThread] = "wait"
    /\ \A t \in Sites : s_pc[t] = "done"
    /\ s_local' = [s_local EXCEPT ![MainThread] = <<Summary>>]
    /\ s_pc' = [s_pc EXCEPT ![MainThread] = "final_open"]
    /\ UNCHANGED <<s_file, s_total_sites, s_total_articles, s_by_source, s_by_approach,
                   s_last_snapshot, s_interval>>
    /\ UNCHANGED nonStatsVars

\* write_summary: open(summary_path, 'w').
WriteSummaryOpen ==
    /\ s_pc[MainThread] = "final_open"
    /\ s_file' = OpenedForWrite(s_file)
    /\ s_pc' = [s_pc EXCEPT ![MainThread] = "final_dump"]
    /\ UNCHANGED <<s_local, s_total_sites, s_total_articles, s_by_source, s_by_approach,
                   s_last_snapshot, s_interval>>
    /\ UNCHANGED nonStatsVars

\* write_summary: json.dump reaches the file when the with block closes it.
WriteSummaryDump ==
    /\ s_pc[MainThread] = "final_dump"
    /\ s_file' = s_local[MainThread]
    /\ s_local' = [s_local EXCEPT ![MainThread] = <<>>]
    /\ s_pc' = [s_pc EXCEPT ![MainThread] = "done"]
    /\ UNCHANGED <<s_total_sites, s_total_articles, s_by_source, s_by_approach,
                   s_last_snapshot, s_interval>>
    /\ UNCHANGED nonStatsVars

NextStats ==
    \/ StartGlobal
    \/ \E t \in StatsThreads : SnapshotBuild(t)
    \/ \E t \in StatsThreads : SnapshotOpen(t)
    \/ \E t \in StatsThreads : SnapshotDump(t)
    \/ \E t \in Sites : RecordSiteNoTargets(t)
    \/ \E t \in Sites, used \in SUBSET Sources : \E items \in ItemCounts(used) :
          RecordSite(t, used, items)
    \/ \E t \in Sites : MaybeWriteSummarySnapshot(t)
    \/ WriteSummaryBuild
    \/ WriteSummaryOpen
    \/ WriteSummaryDump

(***************************************************************************)
(* Site pool, target pools and semaphores (_cli, process_site)             *)
(***************************************************************************)
SemKinds == {"sitemap", "css", "http", "domain"}
ClassSems == {"sitemap", "css", "http"}
Domains == {"d1", "d2"}

\* The targets of the rows of the stream: a site with a sitemap target and
\* a CSS target, and a second site with a CSS target on the domain of the first
\* site's sitemap.
SemTargetList ==
    << [site |-> 1, type |-> "sitemap", domain |-> "d1"],
       [site |-> 1, type |-> "css", domain |-> "d2"],
       [site |-> 2, type |-> "css", domain |-> "d1"] >>

SemTargets == 1..Len(SemTargetList)
SemSites == {SemTargetList[t].site : t \in SemTargets}
TargetsOfSite(s) == {t \in SemTargets : SemTargetList[t].site = s}

\* The largest number of targets of a site: a larger target pool changes nothing.
MaxTargetsPerSite ==
    CHOOSE n \in 0..Len(SemTargetList) :
        /\ \A s \in SemSites : Cardinality(TargetsOfSite(s)) <= n
        /\ \E s \in SemSites : Cardinality(TargetsOfSite(s)) = n

\* The k-th target of site s in the order of `targets`.
NthTarget(s, k) ==
    CHOOSE t \in TargetsOfSite(s) : Cardinality({u \in TargetsOfSite(s) : u < t}) = k - 1

\* _cli: the semaphores are created full, domain_sems is empty, no site runs.
SemConstructed ==
    /\ c_class_avail = [k \in ClassSems |-> c_caps[k]]
    /\ c_dom_avail = <<>>
    /\ c_domain_sems = [d \in Domains |-> 0]
    /\ c_spc = [s \in SemSites |-> "pending"]
    /\ c_sk = [s \in SemSites |-> 1]
    /\ c_tpc = [t \in SemTargets |-> "unsubmitted"]
    /\ c_holds = [t \in SemTargets |-> <<>>]
    /\ c_dsem = [t \in SemTargets |-> 0]
    /\ c_render = [t \in SemTargets |-> FALSE]

SemStart ==
    /\ c_caps \in [SemKinds -> 1..MaxCap]
    /\ c_site_pool \in 1..Cardinality(SemSites)
    /\ c_target_pool \in 1..MaxTargetsPerSite
    /\ SemConstructed

\* The semaphores left alone by the specifications of the other subsystems.
SemIdle ==
    /\ c_caps = [k \in SemKinds |-> 1]
    /\ c_site_pool = 1
    /\ c_target_pool = 1
    /\ SemConstructed

SiteRunning(s) == c_spc[s] \notin {"pending", "done"}
TargetRunning(t) == c_tpc[t] \in {"acquire", "fetch"}

\* site_pool.submit(process_site, row): the row runs when a pool thread is free.
SiteStart(s) ==
    /\ c_spc[s] = "pending"
    /\ Cardinality({x \in SemSites : SiteRunning(x)}) < c_site_pool
    /\ c_spc' = [c_spc EXCEPT ![s] = "test"]
    /\ UNCHANGED <<c_render, c_caps, c_site_pool, c_target_pool, c_class_avail, c_dom_avail,
                   c_domain_sems, c_sk, c_tpc, c_holds, c_dsem>>
    /\ UNCHANGED nonSemVars

\* _get_domain_sem: the test `domain not in domain_sems`.
GetDomainSemTest(s) ==
    /\ c_spc[s] = "test"
    /\ LET d == SemTargetList[NthTarget(s, c_sk[s])].domain
       IN  c_spc' = [c_spc EXCEPT ![s] = IF c_domain_sems[d] = 0 THEN "create" ELSE "return"]
    /\ UNCHANGED <<c_render, c_caps, c_site_pool, c_target_pool, c_class_avail, c_dom_avail,
                   c_domain_sems, c_sk, c_tpc, c_holds, c_dsem>>
    /\ UNCHANGED nonSemVars

\* _get_domain_sem: domain_sems[domain] = threading.Semaphore(per_domain_cap).
GetDomainSemCreate(s) ==
    /\ c_spc[s] = "create"
    /\ LET d == SemTargetList[NthTarget(s, c_sk[s])].domain
       IN  /\ c_dom_avail' = Append(c_dom_avail, c_caps["domain"])
           /\ c_domain_sems' = [c_domain_sems EXCEPT ![d] = Len(c_dom_avail) + 1]
    /\ c_spc' = [c_spc EXCEPT ![s] = "return"]
    /\ UNCHANGED <<c_render, c_caps, c_site_pool, c_target_pool, c_class_avail, c_sk, c_tpc,
                   c_holds, c_dsem>>
    /\ UNCHANGED nonSemVars

\* _get_domain_sem returns domain_sems[domain]; _submit_targets binds it to the
\* closure of the target and submits the closure to the target pool.
SubmitTarget(s) ==
    /\ c_spc[s] = "return"
    /\ LET t == NthTarget(s, c_sk[s])
       IN  /\ c_dsem' = [c_dsem EXCEPT ![t] = c_domain_sems[SemTargetList[t].domain]]
           /\ c_tpc' = [c_tpc EXCEPT ![t] = "queued"]
    /\ IF c_sk[s] < Cardinality(TargetsOfSite(s))
       THEN /\ c_sk' = [c_sk EXCEPT ![s] = @ + 1]
            /\ c_spc' = [c_spc EXCEPT ![s] = "test"]
       ELSE /\ c_spc' = [c_spc EXCEPT ![s] = "collect"]
            /\ UNCHANGED c_sk
    /\ UNCHANGED <<c_render, c_caps, c_site_pool, c_target_pool, c_class_avail, c_dom_avail,
                   c_domain_sems, c_holds>>
    /\ UNCHANGED nonSemVars

\* A thread of the site's target pool takes the closure.
TargetStart(t) ==
    /\ c_tpc[t] = "queued"
    /\ Cardinality({u \in TargetsOfSite(SemTargetList[t].site) : TargetRunning(u)})
          < c_target_pool
    /\ c_tpc' = [c_tpc EXCEPT ![t] = "acquire"]
    /\ UNCHANGED <<c_render, c_caps, c_site_pool, c_target_pool, c_class_avail, c_dom_avail,
                   c_domain_sems, c_spc, c_sk, c_holds, c_dsem>>
    /\ UNCHANGED nonSemVars

\* Mutant of AcquireOrder: _run_css nests its with statements the other way round.
AcquireOrderCssReversed(type) ==
    IF type = "css" THEN <<"domain", "http", type>> ELSE <<type, "http", "domain">>

\* The nesting of the with statements of _run_sm and _run_css.
AcquireOrder(type) == <<type, "http", "domain">>

\* The value of the semaphore `name` as target t sees it.
SemValue(t, name) ==
    IF name = "domain" THEN c_dom_avail[c_dsem[t]] ELSE c_class_avail[name]

\* Semaphore.acquire of the next with statement: blocks while the value is 0.
Acquire(t) ==
    /\ c_tpc[t] = "acquire"
    /\ LET name == AcquireOrder(SemTargetList[t].type)[Len(c_holds[t]) + 1]
       IN  /\ SemValue(t, name) > 0
           /\ IF name = "domain"
              THEN /\ c_dom_avail' = [c_dom_avail EXCEPT ![c_dsem[t]] = @ - 1]
                   /\ UNCHANGED c_class_avail
              ELSE /\ c_class_avail' = [c_class_avail EXCEPT ![name] = @ - 1]
                   /\ UNCHANGED c_dom_avail
           /\ c_holds' = [c_holds EXCEPT ![t] = Append(@, name)]
           /\ c_tpc' = [c_tpc EXCEPT ![t] =
                           IF Len(c_holds[t]) + 1 = Len(AcquireOrder(SemTargetList[t].type))
                           THEN "fetch" ELSE "acquire"]
    /\ UNCHANGED <<c_render, c_caps, c_site_pool, c_target_pool, c_domain_sems, c_spc, c_sk, c_dsem>>
    /\ UNCHANGED nonSemVars

\* A headless-browser render starts in the worker of target t: the extraction
\* of a CSS target, or _browser_fetch_sitemap_text of a sitemap target.
RenderBegin(t) ==
    /\ c_tpc[t] = "fetch"
    /\ ~c_render[t]
    /\ c_render' = [c_render EXCEPT ![t] = TRUE]
    /\ UNCHANGED <<c_caps, c_site_pool, c_target_pool, c_class_avail, c_dom_avail,
                   c_domain_sems, c_spc, c_sk, c_tpc, c_holds, c_dsem>>
    /\ UNCHANGED nonSemVars

\* The render ends: the browser is closed.
RenderEnd(t) ==
    /\ c_tpc[t] = "fetch"
    /\ c_render[t]
    /\ c_render' = [c_render EXCEPT ![t] = FALSE]
    /\ UNCHANGED <<c_caps, c_site_pool, c_target_pool, c_class_avail, c_dom_avail,
                   c_domain_sems, c_spc, c_sk, c_tpc, c_holds, c_dsem>>
    /\ UNCHANGED nonSemVars

\* The number of semaphores `name` that target t holds.
Held(t, name) == Cardinality({i \in 1..Len(c_holds[t]) : c_holds[t][i] = name})

\* _scrape_sitemap_target or _scrape_css_target returns and the with statements
\* end: Semaphore.release of every semaphore held; the future is done.
FetchReturns(t) ==
    /\ c_tpc[t] = "fetch"
    /\ ~c_render[t]
    /\ c_class_avail' = [k \in ClassSems |-> c_class_avail[k] + Held(t, k)]
    /\ c_dom_avail' = [i \in 1..Len(c_dom_avail) |->
                          IF i = c_dsem[t] THEN c_dom_avail[i] + Held(t, "domain")
                          ELSE c_dom_avail[i]]
    /\ c_holds' = [c_holds EXCEPT ![t] = <<>>]
    /\ c_tpc' = [c_tpc EXCEPT ![t] = "done"]
    /\ UNCHANGED <<c_render, c_caps, c_site_pool, c_target_pool, c_domain_sems, c_spc, c_sk, c_dsem>>
    /\ UNCHANGED nonSemVars

\* process_site: as_completed has yielded every future; the pool thread is free.
SiteCollect(s) ==
    /\ c_spc[s] = "collect"
    /\ \A t \in TargetsOfSite(s) : c_tpc[t] = "done"
    /\ c_spc' = [c_spc EXCEPT ![s] = "done"]
    /\ UNCHANGED <<c_render, c_caps, c_site_pool, c_target_pool, c_class_avail, c_dom_avail,
                   c_domain_sems, c_sk, c_tpc, c_holds, c_dsem>>
    /\ UNCHANGED nonSemVars

NextSem ==
    \/ \E s \in SemSites : SiteStart(s)
    \/ \E s \in SemSites : GetDomainSemTest(s)
    \/ \E s \in SemSites : GetDomainSemCreate(s)
    \/ \E s \in SemSites : SubmitTarget(s)
    \/ \E t \in SemTargets : TargetStart(t)
    \/ \E t \in SemTargets : Acquire(t)
    \/ \E t \in SemTargets : RenderBegin(t)
    \/ \E t \in SemTargets : RenderEnd(t)
    \/ \E t \in SemTargets : FetchReturns(t)
    \/ \E s \in SemSites : SiteCollect(s)

(***************************************************************************)
(* Target workers, proxy promotion and process_site                        *)
(***************************************************************************)
\* The targets of the rows of the discovery stream, in stream order: the site
\* of the row, the types the target can have and the host of its URL.
ScrapeTargetList ==
    << [site |-> 1, types |-> {"sitemap"}, host |-> "h1"],
       [site |-> 1, types |-> {"sitemap", "css"}, host |-> "h2"],
       [site |-> 2, types |-> {"sitemap"}, host |-> "h1"] >>

ScrapeTargets == 1..Len(ScrapeTargetList)
ScrapeSites == {ScrapeTargetList[t].site : t \in ScrapeTargets}
TargetsOf(s) == {t \in ScrapeTargets : ScrapeTargetList[t].site = s}
Host(t) == ScrapeTargetList[t].host
Type(t) == p_type[t]

\* The types of the targets of a stream.
StreamTypes ==
    {ty \in [ScrapeTargets -> Sources] :
        \A t \in ScrapeTargets : ty[t] \in ScrapeTargetList[t].types}

\* How a direct fetch ends: with entries, with none, or with a timeout that the
\* fetch or the target worker swallows.
FetchKinds == {"items", "empty", "timeout"}

\* How a browser/proxy fetch ends; _browser_fetch_sitemap_text returns the empty
\* text when the page times out.
BrowserKinds == {"items", "empty"}

\* _http_probe returns None (answered is FALSE) or the status code and whether
\* the headers or the body carry a Cloudflare signature.
ProbeNone == [answered |-> FALSE, status |-> 0, waf |-> FALSE]
ProbeStatuses == {200, 301, 401, 403, 429, 503}
ProbeSamples ==
    {ProbeNone}
    \cup {[answered |-> TRUE, status |-> st, waf |-> FALSE] : st \in ProbeStatuses}
    \cup {[answered |-> TRUE, status |-> st, waf |-> TRUE] : st \in {200, 403}}

Unclassified == [category |-> "none", retryable |-> FALSE]

\* Mutant of ClassifyProbe: a 5xx status is classified as a retryable error.
ClassifyProbeWith5xx(probe) ==
    IF ~probe.answered THEN Unclassified
    ELSE IF probe.waf THEN [category |-> "access_blocked", retryable |-> TRUE]
    ELSE IF probe.status = 429 \/ probe.status >= 500
         THEN [category |-> "http_error", retryable |-> TRUE]
    ELSE IF probe.status \in {401, 403} THEN [category |-> "http_error", retryable |-> FALSE]
    ELSE IF 300 <= probe.status /\ probe.status < 400
         THEN [category |-> "http_redirect", retryable |-> TRUE]
    ELSE Unclassified

\* _classify_probe.
ClassifyProbe(probe) ==
    IF ~probe.answered THEN Unclassified
    ELSE IF probe.waf THEN [category |-> "access_blocked", retryable |-> TRUE]
    ELSE IF probe.status = 429 THEN [category |-> "http_error", retryable |-> TRUE]
    ELSE IF probe.status \in {401, 403} THEN [category |-> "http_error", retryable |-> FALSE]
    ELSE IF 300 <= probe.status /\ probe.status < 400
         THEN [category |-> "http_redirect", retryable |-> TRUE]
    ELSE Unclassified

\* The test of the target workers on the classified probe.
WantsRetry(classified) ==
    classified.category \in {"access_blocked", "http_error", "http_redirect"}

\* Mutant of ProxyFirst: the promoted set is not consulted.
ProxyFirstIgnored(host, promoted) == FALSE

\* The test `host and host in proxy_hosts_promoted`.
ProxyFirst(host, promoted) == host # "" /\ host \in promoted

\* Mutant of PromotedAfterAdd: the set is replaced by the promoted host.
PromotedAfterAssign(promoted, host) ==
    IF host = "" THEN promoted ELSE {host}

\* _promote_host: proxy_hosts_promoted after the call.
PromotedAfterAdd(promoted, host) ==
    IF host = "" THEN promoted ELSE promoted \cup {host}

\* The entries a fetch of target t returns when it returns any: a direct
\* sitemap fetch builds them from the field selectors, a browser sitemap fetch
\* keeps the loc only, and both CSS fetches run the same extractor.
ItemsOf(t, method) ==
    << [target |-> t,
        form |-> IF Type(t) = "css" THEN "article"
                 ELSE IF method = "browser" THEN "loc" ELSE "fields"] >>

Fetched(t, method, kind) == IF kind = "items" THEN ItemsOf(t, method) ELSE <<>>

\* The failure history of a target after a fetch that ended with `kind`.
AfterFetch(failure, kind) == IF kind = "timeout" THEN "timeout" ELSE failure

\* A process_site that counts the items of a target and submits none.
RecordsOfNone(t, items) == {}

\* The records process_site submits for the items of target t (ts left out).
RecordsOf(t, items) ==
    {[site |-> ScrapeTargetList[t].site, sourceType |-> Type(t), item |-> items[i]] :
        i \in 1..Len(items)}

\* The module state and the locals of process_site before any site runs.
ScrapeConstructed ==
    /\ p_promoted = {}
    /\ p_promotions = {}
    /\ p_spc = [s \in ScrapeSites |-> "pending"]
    /\ p_tpc = [t \in ScrapeTargets |-> "unsubmitted"]
    /\ p_trace = [t \in ScrapeTargets |-> <<>>]
    /\ p_probed = [t \in ScrapeTargets |-> ProbeNone]
    /\ p_items = [t \in ScrapeTargets |-> <<>>]
    /\ p_failure = [t \in ScrapeTargets |-> "none"]
    /\ p_after = [t \in ScrapeTargets |-> FALSE]
    /\ p_by_source = [s \in ScrapeSites |-> [src \in Sources |-> 0]]
    /\ p_exc = [s \in ScrapeSites |-> {}]
    /\ p_reasons = [s \in ScrapeSites |-> {}]
    /\ p_written = EmptyBag

\* A run in which every fetch and probe can have every outcome.
ScrapeStart ==
    /\ p_type \in StreamTypes
    /\ p_direct = [t \in ScrapeTargets |-> FetchKinds]
    /\ p_probe = [t \in ScrapeTargets |-> ProbeSamples]
    /\ p_browser = [t \in ScrapeTargets |-> BrowserKinds]
    /\ p_site_pool \in 1..Cardinality(ScrapeSites)
    /\ ScrapeConstructed

\* The probes of the runs with fixed responses: one blocked, one not.
RunProbes ==
    {[answered |-> TRUE, status |-> 403, waf |-> FALSE],
     [answered |-> TRUE, status |-> 200, waf |-> FALSE]}

\* A run in which every fetch and probe of a URL has one fixed response; the
\* two fetches of a CSS target run the same extractor on the same page.
RunStart ==
    /\ p_type \in StreamTypes
    /\ p_direct \in [ScrapeTargets -> {{"items"}, {"empty"}}]
    /\ p_probe \in [ScrapeTargets -> {{pr} : pr \in RunProbes}]
    /\ p_browser \in [ScrapeTargets -> {{"items"}, {"empty"}}]
    /\ \A t \in ScrapeTargets : Type(t) = "css" => p_browser[t] = p_direct[t]
    /\ p_site_pool \in 1..Cardinality(ScrapeSites)
    /\ ScrapeConstructed

\* The target workers left alone by the specifications of the other subsystems.
ScrapeIdle ==
    /\ p_type = [t \in ScrapeTargets |-> "sitemap"]
    /\ p_direct = [t \in ScrapeTargets |-> {"empty"}]
    /\ p_probe = [t \in ScrapeTargets |-> {ProbeNone}]
    /\ p_browser = [t \in ScrapeTargets |-> {"empty"}]
    /\ p_site_pool = 1
    /\ ScrapeConstructed

ProcessSiteRunning(s) == p_spc[s] = "running"

\* site_pool takes the rows in stream order; process_site submits every target
\* of the row to its target pool (target_concurrency is not below their number).
ProcessSiteBegin(s) ==
    /\ p_spc[s] = "pending"
    /\ \A x \in ScrapeSites : x < s => p_spc[x] # "pending"
    /\ Cardinality({x \in ScrapeSites : ProcessSiteRunning(x)}) < p_site_pool
    /\ p_spc' = [p_spc EXCEPT ![s] = "running"]
    /\ p_tpc' = [t \in ScrapeTargets |-> IF t \in TargetsOf(s) THEN "start" ELSE p_tpc[t]]
    /\ UNCHANGED <<p_type, p_direct, p_probe, p_browser, p_site_pool, p_promoted,
                   p_promotions, p_trace, p_probed, p_items, p_failure, p_after,
                   p_by_source, p_exc, p_reasons, p_written>>
    /\ UNCHANGED nonScrapeVars

\* _scrape_sitemap_target, _scrape_css_target: the test of the promoted set.
ScrapeTargetStart(t) ==
    /\ p_tpc[t] = "start"
    /\ p_tpc' = [p_tpc EXCEPT ![t] =
                    IF ProxyFirst(Host(t), p_promoted) THEN "proxy_first" ELSE "direct"]
    /\ p_after' = [p_after EXCEPT ![t] = Host(t) \in p_promotions]
    /\ UNCHANGED <<p_type, p_direct, p_probe, p_browser, p_site_pool, p_promoted,
                   p_promotions, p_spc, p_trace, p_probed, p_items, p_failure,
                   p_by_source, p_exc, p_reasons, p_written>>
    /\ UNCHANGED nonScrapeVars

\* Promoted host: the browser/proxy fetch; its entries are returned if any.
ProxyFirstFetch(t) ==
    /\ p_tpc[t] = "proxy_first"
    /\ \E kind \in p_browser[t] :
          /\ p_trace' = [p_trace EXCEPT ![t] = Append(@, "browser")]
          /\ p_failure' = [p_failure EXCEPT ![t] = AfterFetch(@, kind)]
          /\ p_items' = [p_items EXCEPT ![t] = Fetched(t, "browser", kind)]
          /\ p_tpc' = [p_tpc EXCEPT ![t] = IF kind = "items" THEN "returned" ELSE "backup"]
    /\ UNCHANGED <<p_type, p_direct, p_probe, p_browser, p_site_pool, p_promoted,
                   p_promotions, p_spc, p_probed, p_after, p_by_source, p_exc, p_reasons,
                   p_written>>
    /\ UNCHANGED nonScrapeVars

\* Promoted host: the direct fetch made as a backup; the worker returns.
BackupFetch(t) ==
    /\ p_tpc[t] = "backup"
    /\ \E kind \in p_direct[t] :
          /\ p_trace' = [p_trace EXCEPT ![t] = Append(@, "direct")]
          /\ p_failure' = [p_failure EXCEPT ![t] = AfterFetch(@, kind)]
          /\ p_items' = [p_items EXCEPT ![t] = Fetched(t, "direct", kind)]
    /\ p_tpc' = [p_tpc EXCEPT ![t] = "returned"]
    /\ UNCHANGED <<p_type, p_direct, p_probe, p_browser, p_site_pool, p_promoted,
                   p_promotions, p_spc, p_probed, p_after, p_by_source, p_exc, p_reasons,
                   p_written>>
    /\ UNCHANGED nonScrapeVars

\* Host not promoted: the direct fetch; its entries are returned if any.
DirectFetch(t) ==
    /\ p_tpc[t] = "direct"
    /\ \E kind \in p_direct[t] :
          /\ p_trace' = [p_trace EXCEPT ![t] = Append(@, "direct")]
          /\ p_failure' = [p_failure EXCEPT ![t] = AfterFetch(@, kind)]
          /\ p_items' = [p_items EXCEPT ![t] = Fetched(t, "direct", kind)]
          /\ p_tpc' = [p_tpc EXCEPT ![t] = IF kind = "items" THEN "returned" ELSE "probe"]
    /\ UNCHANGED <<p_type, p_direct, p_probe, p_browser, p_site_pool, p_promoted,
                   p_promotions, p_spc, p_probed, p_after, p_by_source, p_exc, p_reasons,
                   p_written>>
    /\ UNCHANGED nonScrapeVars

\* Host not promoted, no entries: _http_probe and _classify_probe; the worker
\* returns the empty list unless the classified probe asks for the retry.
ProbeUrl(t) ==
    /\ p_tpc[t] = "probe"
    /\ \E probe \in p_probe[t] :
          IF WantsRetry(ClassifyProbe(probe))
          THEN /\ p_probed' = [p_probed EXCEPT ![t] = probe]
               /\ p_tpc' = [p_tpc EXCEPT ![t] = "retry"]
          ELSE /\ p_probed' = [p_probed EXCEPT ![t] = ProbeNone]
               /\ p_tpc' = [p_tpc EXCEPT ![t] = "returned"]
    /\ p_trace' = [p_trace EXCEPT ![t] = Append(@, "probe")]
    /\ UNCHANGED <<p_type, p_direct, p_probe, p_browser, p_site_pool, p_promoted,
                   p_promotions, p_spc, p_items, p_failure, p_after, p_by_source, p_exc,
                   p_reasons, p_written>>
    /\ UNCHANGED nonScrapeVars

\* The browser/proxy retry; with entries the worker goes on to _promote_host.
RetryFetch(t) ==
    /\ p_tpc[t] = "retry"
    /\ \E kind \in p_browser[t] :
          /\ p_trace' = [p_trace EXCEPT ![t] = Append(@, "browser")]
          /\ p_failure' = [p_failure EXCEPT ![t] = AfterFetch(@, kind)]
          /\ p_items' = [p_items EXCEPT ![t] = Fetched(t, "browser", kind)]
          /\ p_tpc' = [p_tpc EXCEPT ![t] = IF kind = "items" THEN "promote" ELSE "returned"]
          /\ p_probed' = [p_probed EXCEPT ![t] = IF kind = "items" THEN @ ELSE ProbeNone]
    /\ UNCHANGED <<p_type, p_direct, p_probe, p_browser, p_site_pool, p_promoted,
                   p_promotions, p_spc, p_after, p_by_source, p_exc, p_reasons, p_written>>
    /\ UNCHANGED nonScrapeVars

\* _promote_host under proxy_hosts_lock, then the worker returns the entries.
PromoteHost(t) ==
    /\ p_tpc[t] = "promote"
    /\ p_promoted' = PromotedAfterAdd(p_promoted, Host(t))
    /\ p_promotions' = IF Host(t) = "" THEN p_promotions ELSE p_promotions \cup {Host(t)}
    /\ p_tpc' = [p_tpc EXCEPT ![t] = "returned"]
    /\ p_probed' = [p_probed EXCEPT ![t] = ProbeNone]
    /\ UNCHANGED <<p_type, p_direct, p_probe, p_browser, p_site_pool, p_spc, p_trace,
                   p_items, p_failure, p_after, p_by_source, p_exc, p_reasons, p_written>>
    /\ UNCHANGED nonScrapeVars

TargetWorking(t) ==
    p_tpc[t] \in {"start", "proxy_first", "backup", "direct", "probe", "retry", "promote"}

\* An exception leaves _run_sm or _run_css: the future holds it and no result.
TargetRaises(t) ==
    /\ TargetWorking(t)
    /\ p_failure' = [p_failure EXCEPT ![t] = "raised"]
    /\ p_items' = [p_items EXCEPT ![t] = <<>>]
    /\ p_tpc' = [p_tpc EXCEPT ![t] = "returned"]
    /\ p_probed' = [p_probed EXCEPT ![t] = ProbeNone]
    /\ UNCHANGED <<p_type, p_direct, p_probe, p_browser, p_site_pool, p_promoted,
                   p_promotions, p_spc, p_trace, p_after, p_by_source, p_exc, p_reasons,
                   p_written>>
    /\ UNCHANGED nonScrapeVars

\* The items process_site takes from the future of target t.
Collected(t) == IF p_failure[t] = "raised" THEN <<>> ELSE p_items[t]

\* process_site: as_completed yields the future of target t; exception_types,
\* items_by_source and writer.submit for every item (sitemap_max_urls is 0).
CollectTarget(s, t) ==
    /\ ProcessSiteRunning(s)
    /\ t \in TargetsOf(s)
    /\ p_tpc[t] = "returned"
    /\ p_exc' = [p_exc EXCEPT ![s] = IF p_failure[t] = "raised" THEN @ \cup {"Exception"} ELSE @]
    /\ p_by_source' = [p_by_source EXCEPT ![s][Type(t)] = @ + Len(Collected(t))]
    /\ p_written' = p_written (+) SetToBag(RecordsOf(t, Collected(t)))
    /\ p_tpc' = [p_tpc EXCEPT ![t] = "collected"]
    /\ p_trace' = [p_trace EXCEPT ![t] = <<>>]
    /\ p_after' = [p_after EXCEPT ![t] = FALSE]
    /\ UNCHANGED <<p_type, p_direct, p_probe, p_browser, p_site_pool, p_promoted,
                   p_promotions, p_spc, p_probed, p_items, p_failure, p_reasons>>
    /\ UNCHANGED nonScrapeVars

\* process_site: the reasons of the extraction error details.
Reasons(s) ==
    (IF (\E t \in TargetsOf(s) : Type(t) = "sitemap") /\ p_by_source[s]["sitemap"] = 0
     THEN {"sitemap_zero"} ELSE {})
    \cup (IF (\E t \in TargetsOf(s) : Type(t) = "css") /\ p_by_source[s]["css"] = 0
          THEN {"css_zero"} ELSE {})
    \cup (IF p_exc[s] # {} THEN {"target_exceptions"} ELSE {})

\* process_site: approaches_used, the types of the futures submitted.
ApproachesUsed(s) == {Type(t) : t \in TargetsOf(s)}

\* process_site after the target pool: record_site with items_by_source and
\* approaches_used, then the reasons are built and upserted and the site
\* worker returns.
ProcessSiteEnd(s) ==
    /\ ProcessSiteRunning(s)
    /\ \A t \in TargetsOf(s) : p_tpc[t] = "collected"
    /\ RecordSiteCounters(ApproachesUsed(s), p_by_source[s])
    /\ p_reasons' = [p_reasons EXCEPT ![s] = Reasons(s)]
    /\ p_spc' = [p_spc EXCEPT ![s] = "done"]
    /\ UNCHANGED <<p_type, p_direct, p_probe, p_browser, p_site_pool, p_promoted,
                   p_promotions, p_tpc, p_trace, p_probed, p_items, p_failure, p_after,
                   p_by_source, p_exc, p_written>>
    /\ UNCHANGED <<s_pc, s_local, s_file, s_last_snapshot, s_interval>>
    /\ UNCHANGED <<writerVars, semVars, sitesVars, targetsVars, discoveryVars,
                   filterVars, expandVars, diagVars>>

\* The run when no exception leaves a target worker.
NextRun ==
    \/ \E s \in ScrapeSites : ProcessSiteBegin(s)
    \/ \E t \in ScrapeTargets : ScrapeTargetStart(t)
    \/ \E t \in ScrapeTargets : ProxyFirstFetch(t)
    \/ \E t \in ScrapeTargets : BackupFetch(t)
    \/ \E t \in ScrapeTargets : DirectFetch(t)
    \/ \E t \in ScrapeTargets : ProbeUrl(t)
    \/ \E t \in ScrapeTargets : RetryFetch(t)
    \/ \E t \in ScrapeTargets : PromoteHost(t)
    \/ \E s \in ScrapeSites : \E t \in ScrapeTargets : CollectTarget(s, t)
    \/ \E s \in ScrapeSites : ProcessSiteEnd(s)

NextScrape ==
    \/ NextRun
    \/ \E t \in ScrapeTargets : TargetRaises(t)

(***************************************************************************)
(* The stream reader, site_q and the site loop of _cli (--once)            *)
(***************************************************************************)
SiteUrls == {"a", "b"}

\* The value of result.url of a row: a site URL, or the empty string.
RowUrls == SiteUrls \cup {""}

SitesConstructed ==
    /\ r_pos = 1
    /\ r_enqueued = {}
    /\ r_processed = {}
    /\ r_q = <<>>
    /\ r_stop_reader = FALSE
    /\ r_main = "loop"
    /\ r_futures = <<>>
    /\ r_state = [u \in SiteUrls |-> "Pending"]
    /\ r_started = [u \in SiteUrls |-> 0]

SitesStart ==
    /\ r_stream \in [1..MaxRows -> RowUrls]
    /\ r_allowed \in SUBSET SiteUrls
    /\ r_pool \in 1..Cardinality(SiteUrls)
    /\ SitesConstructed

\* The site loop left alone by the specifications of the other subsystems.
SitesIdle ==
    /\ r_stream = <<>>
    /\ r_allowed = {}
    /\ r_pool = 1
    /\ SitesConstructed

\* Mutant of SkipRow: enqueued_sites is not consulted.
SkipRowProcessedOnly(site, processed, enqueued) ==
    site = "" \/ site \in processed

\* reader_once: `not site or site in processed_sites or site in enqueued_sites`.
SkipRow(site, processed, enqueued) ==
    site = "" \/ site \in processed \/ site \in enqueued

\* reader_once reads one row: it is skipped, or put on site_q when allowed
\* (site_q holds at least ten rows and is never full here).
ReaderRow ==
    /\ r_pos <= Len(r_stream)
    /\ LET site == r_stream[r_pos]
       IN  IF ~SkipRow(site, r_processed, r_enqueued) /\ site \in r_allowed
           THEN /\ r_q' = Append(r_q, site)
                /\ r_enqueued' = r_enqueued \cup {site}
           ELSE UNCHANGED <<r_q, r_enqueued>>
    /\ r_pos' = r_pos + 1
    /\ UNCHANGED <<r_stream, r_allowed, r_pool, r_processed, r_stop_reader, r_main,
                   r_futures, r_state, r_started>>
    /\ UNCHANGED nonSitesVars

\* reader_once after the last row: stop_reader.set().
ReaderEnd ==
    /\ r_pos = Len(r_stream) + 1
    /\ ~r_stop_reader
    /\ r_stop_reader' = TRUE
    /\ UNCHANGED <<r_stream, r_allowed, r_pool, r_pos, r_enqueued, r_processed, r_q,
                   r_main, r_futures, r_state, r_started>>
    /\ UNCHANGED nonSitesVars

\* The site loop: site_q.get returns a row; site_pool.submit(process_site, row).
MainSubmit ==
    /\ r_main = "loop"
    /\ r_q # <<>>
    /\ r_futures' = Append(r_futures, [site |-> Head(r_q), state |-> "queued"])
    /\ r_q' = Tail(r_q)
    /\ UNCHANGED <<r_stream, r_allowed, r_pool, r_pos, r_enqueued, r_processed,
                   r_stop_reader, r_main, r_state, r_started>>
    /\ UNCHANGED nonSitesVars

\* A test that leaves the site loop as soon as site_q is empty.
ShouldBreakOnEmpty(stop_reader, site_q) == site_q = <<>>

\* The site loop, on Empty: `args.once and stop_reader.is_set() and
\* site_q.empty()` (args.once is set).
ShouldBreak(stop_reader, site_q) == stop_reader /\ site_q = <<>>

\* The site loop: site_q.get times out, stop_reader is set and site_q is empty.
MainBreak ==
    /\ r_main = "loop"
    /\ ShouldBreak(r_stop_reader, r_q)
    /\ r_main' = "drain"
    /\ UNCHANGED <<r_stream, r_allowed, r_pool, r_pos, r_enqueued, r_processed, r_q,
                   r_stop_reader, r_futures, r_state, r_started>>
    /\ UNCHANGED nonSitesVars

FutureRunning(i) == r_futures[i].state = "running"

\* A thread of site_pool takes the oldest queued call of process_site.
ProcessSiteCall(i) ==
    /\ r_futures[i].state = "queued"
    /\ \A k \in 1..(i - 1) : r_futures[k].state # "queued"
    /\ Cardinality({k \in 1..Len(r_futures) : FutureRunning(k)}) < r_pool
    /\ r_futures' = [r_futures EXCEPT ![i].state = "running"]
    /\ r_state' = [r_state EXCEPT ![r_futures[i].site] = "Running"]
    /\ r_started' = [r_started EXCEPT ![r_futures[i].site] = @ + 1]
    /\ UNCHANGED <<r_stream, r_allowed, r_pool, r_pos, r_enqueued, r_processed, r_q,
                   r_stop_reader, r_main>>
    /\ UNCHANGED nonSitesVars

\* process_site returns (site, total_items).
ProcessSiteReturn(i) ==
    /\ FutureRunning(i)
    /\ r_futures' = [r_futures EXCEPT ![i].state = "returned"]
    /\ r_state' = [r_state EXCEPT ![r_futures[i].site] = "Completed"]
    /\ UNCHANGED <<r_stream, r_allowed, r_pool, r_pos, r_enqueued, r_processed, r_q,
                   r_stop_reader, r_main, r_started>>
    /\ UNCHANGED nonSitesVars

\* process_site raises: the future holds the exception.
ProcessSiteRaise(i) ==
    /\ FutureRunning(i)
    /\ r_futures' = [r_futures EXCEPT ![i].state = "raised"]
    /\ r_state' = [r_state EXCEPT ![r_futures[i].site] = "Failed"]
    /\ UNCHANGED <<r_stream, r_allowed, r_pool, r_pos, r_enqueued, r_processed, r_q,
                   r_stop_reader, r_main, r_started>>
    /\ UNCHANGED nonSitesVars

\* The drain loop: as_completed yields a future; its site is added to
\* processed_sites unless the call raised.
MainDrain(i) ==
    /\ r_main = "drain"
    /\ r_futures[i].state \in {"returned", "raised"}
    /\ r_processed' = IF r_futures[i].state = "returned"
                      THEN r_processed \cup {r_futures[i].site} ELSE r_processed
    /\ r_futures' = [r_futures EXCEPT ![i].state = "drained"]
    /\ UNCHANGED <<r_stream, r_allowed, r_pool, r_pos, r_enqueued, r_q, r_stop_reader,
                   r_main, r_state, r_started>>
    /\ UNCHANGED nonSitesVars

\* Every future was yielded: the site loop is over.
MainEnd ==
    /\ r_main = "drain"
    /\ \A i \in 1..Len(r_futures) : r_futures[i].state = "drained"
    /\ r_main' = "done"
    /\ UNCHANGED <<r_stream, r_allowed, r_pool, r_pos, r_enqueued, r_processed, r_q,
                   r_stop_reader, r_futures, r_state, r_started>>
    /\ UNCHANGED nonSitesVars

NextSites ==
    \/ ReaderRow
    \/ ReaderEnd
    \/ MainSubmit
    \/ MainBreak
    \/ \E i \in 1..Len(r_futures) : ProcessSiteCall(i)
    \/ \E i \in 1..Len(r_futures) : ProcessSiteReturn(i)
    \/ \E i \in 1..Len(r_futures) : ProcessSiteRaise(i)
    \/ \E i \in 1..Len(r_futures) : MainDrain(i)
    \/ MainEnd

(***************************************************************************)
(* Selector detection of a leaf sitemap and _normalize_targets             *)
(***************************************************************************)
FieldNames == {"url", "date", "title"}
UrlTags == {"loc", "lastmod", "news_title"}

\* The reply of the LLM: JSON with a `fields` dict (parsed) or anything else.
LlmReplies ==
    {[parsed |-> TRUE, fields |-> f] : f \in SUBSET FieldNames}
    \cup {[parsed |-> FALSE, fields |-> {}]}

\* The leaf sitemap as _detect_selectors_basic sees it.
LeafRoots == {"unreadable", "sitemapindex", "urlset_no_url", "urlset", "other"}

\* `detected` is None.
NoDetection == [ok |-> FALSE, fields |-> {}, method |-> "none"]

\* _parse_llm_response.
ParseLlmResponse(reply) ==
    IF reply.parsed
    THEN [ok |-> TRUE, fields |-> reply.fields, method |-> "llm"]
    ELSE NoDetection

\* A basic detector that does not stop at a urlset without a <url> element.
DetectSelectorsBasicAnyUrlset(root, tags) ==
    IF root = "sitemapindex"
    THEN [ok |-> TRUE, fields |-> {"url", "date"}, method |-> "basic"]
    ELSE IF root \in {"urlset", "urlset_no_url"}
    THEN [ok |-> TRUE,
          fields |-> (IF "loc" \in tags THEN {"url"} ELSE {})
                     \cup (IF "lastmod" \in tags THEN {"date"} ELSE {})
                     \cup (IF "news_title" \in tags THEN {"title"} ELSE {}),
          method |-> "basic"]
    ELSE NoDetection

\* _detect_selectors_basic.
DetectSelectorsBasic(root, tags) ==
    IF root = "sitemapindex"
    THEN [ok |-> TRUE, fields |-> {"url", "date"}, method |-> "basic"]
    ELSE IF root = "urlset"
    THEN [ok |-> TRUE,
          fields |-> (IF "loc" \in tags THEN {"url"} ELSE {})
                     \cup (IF "lastmod" \in tags THEN {"date"} ELSE {})
                     \cup (IF "news_title" \in tags THEN {"title"} ELSE {}),
          method |-> "basic"]
    ELSE NoDetection

TargetsConstructed ==
    /\ n_pc = "llm"
    /\ n_detected = NoDetection
    /\ n_record = NoDetection
    /\ n_targets = <<>>

TargetsStart ==
    /\ n_llm \in LlmReplies
    /\ n_root \in LeafRoots
    /\ n_tags \in SUBSET UrlTags
    /\ n_require_title \in BOOLEAN
    /\ TargetsConstructed

\* Selector detection left alone by the specifications of the other subsystems.
TargetsIdle ==
    /\ n_llm = [parsed |-> FALSE, fields |-> {}]
    /\ n_root = "unreadable"
    /\ n_tags = {}
    /\ n_require_title = TRUE
    /\ TargetsConstructed

\* _detect_one: _detect_selectors_with_llm.
DetectWithLlm ==
    /\ n_pc = "llm"
    /\ n_detected' = ParseLlmResponse(n_llm)
    /\ n_pc' = IF ParseLlmResponse(n_llm).ok THEN "accept" ELSE "basic"
    /\ UNCHANGED <<n_llm, n_root, n_tags, n_require_title, n_record, n_targets>>
    /\ UNCHANGED nonTargetsVars

\* _detect_one: the LLM gave nothing, _detect_selectors_basic.
DetectBasic ==
    /\ n_pc = "basic"
    /\ n_detected' = DetectSelectorsBasic(n_root, n_tags)
    /\ n_pc' = "accept"
    /\ UNCHANGED <<n_llm, n_root, n_tags, n_require_title, n_record, n_targets>>
    /\ UNCHANGED nonTargetsVars

\* _detect_one: a detection without a title-like field is rejected when
\* SITEMAP_REQUIRE_ANY_TITLE is set; the record goes into the row of the stream.
AcceptDetection ==
    /\ n_pc = "accept"
    /\ n_record' = IF n_detected.ok /\ (n_require_title => "title" \in n_detected.fields)
                   THEN n_detected ELSE NoDetection
    /\ n_pc' = "normalize"
    /\ UNCHANGED <<n_llm, n_root, n_tags, n_require_title, n_detected, n_targets>>
    /\ UNCHANGED nonTargetsVars

\* _normalize_targets: a sitemap target for a record with a URL and fields.
NormalizeTargets ==
    /\ n_pc = "normalize"
    /\ n_targets' = IF n_record.fields # {}
                    THEN <<[type |-> "sitemap", fields |-> n_record.fields,
                            detectedBy |-> n_record.method]>>
                    ELSE <<>>
    /\ n_pc' = "done"
    /\ UNCHANGED <<n_llm, n_root, n_tags, n_require_title, n_detected, n_record>>
    /\ UNCHANGED nonTargetsVars

NextTargets ==
    \/ DetectWithLlm
    \/ DetectBasic
    \/ AcceptDetection
    \/ NormalizeTargets

(***************************************************************************)
(* Sitemap discovery of a site: test_recursive_expansion and the fallback  *)
(* probes (src/selection_extraction_pipeline.py, src/sitemap_discovery.py) *)
(***************************************************************************)
\* The sites main() processes at the same time (--site-concurrency 2).
DiscoveryJobs == {"j1", "j2"}

\* A root URL: its scheme and the labels of its host.
Url(scheme, host) == [scheme |-> scheme, host |-> host]
NoUrl == Url("", <<>>)
SeedUrls ==
    {Url("https", <<"news", "ex", "com">>), Url("https", <<"ex", "com">>),
     Url("http", <<"ex", "com">>)}

\* Defaults of the environment switches.
ROBOTS_BROWSER_RETRY == TRUE
SITEMAP_BROWSER_RETRY_ENABLED == TRUE
SITEMAP_REQUIRE_ANY_TITLE == TRUE
CSS_FALLBACK_DISABLED == FALSE

\* _apex_roots: the registrable domain of a host of three or more labels,
\* as https, https www and http roots; nothing for an apex or www apex host.
MULTI_SUFFIXES == {<<"com", "au">>, <<"co", "uk">>}
LastLabels(host, n) == SubSeq(host, Len(host) - n + 1, Len(host))
SuffixLabels(host) == IF LastLabels(host, 2) \in MULTI_SUFFIXES THEN 2 ELSE 1
\* An _apex_roots that escalates from every host but the registrable domain.
ApexRootsFromWww(url) ==
    LET host == url.host IN
    IF Len(host) < 3 \/ Len(host) <= SuffixLabels(host)
    THEN <<>>
    ELSE LET registrable == LastLabels(host, SuffixLabels(host) + 1) IN
         IF host = registrable
         THEN <<>>
         ELSE <<Url("https", registrable),
                Url("https", <<"www">> \o registrable),
                Url("http", registrable)>>

ApexRoots(url) ==
    LET host == url.host IN
    IF Len(host) < 3 \/ Len(host) <= SuffixLabels(host)
    THEN <<>>
    ELSE LET registrable == LastLabels(host, SuffixLabels(host) + 1) IN
         IF host = registrable \/ host = <<"www">> \o registrable
         THEN <<>>
         ELSE <<Url("https", registrable),
                Url("https", <<"www">> \o registrable),
                Url("http", registrable)>>

DiscoveryUrls == SeedUrls \cup UNION {Range(ApexRoots(u)) : u \in SeedUrls}
DiscoveryHosts == {u.host : u \in DiscoveryUrls}

\* What robots.txt answers, and the text of the answer or of the rendered page.
RobotsStatuses == {200, 301, 401, 403, 404}
RobotsBodies == {"sitemaps", "nositemaps", "empty"}

\* What a sitemap candidate answers to fetch_bytes and _http_probe: a valid
\* sitemap, nothing with an unremarkable status, or nothing with 3xx, 401,
\* 403, 429 or a challenge page.
FetchResults == {"sitemap", "missing", "blocked"}
HomepageResults == {"links", "nolinks", "blocked"}

\* The sitemap found, as the filters and expand_recursive see it: kept by the
\* word, year and date filters; an item within recent_hours among the sampled
\* <url> nodes; a title-like field among them.
LeafSitemaps == [kept : BOOLEAN, recent : BOOLEAN, title : BOOLEAN]

\* The leaves expand_recursive and the final filters keep.
LeavesKept(leaf) ==
    IF leaf.kept /\ leaf.recent /\ (~SITEMAP_REQUIRE_ANY_TITLE \/ leaf.title)
    THEN 1 ELSE 0

\* A count of browser fetches, followed up to MaxFetches.
Counted(n) == IF n < MaxFetches THEN n + 1 ELSE n

\* The stats test_recursive_expansion returns: the URL it was called with,
\* finalStats.afterDateFilter and cssFallback.success.
Stats(url, leaves, css) == [url |-> url, leaves |-> leaves, css |-> css]
NoResult == Stats(NoUrl, 0, FALSE)

\* A call of test_recursive_expansion(url) at its first step.
Call(url) ==
    [url |-> url, pc |-> "robots", trigger |-> "none", ctx |-> "site",
     step |-> "none", probe |-> NoUrl, roots |-> <<>>, used |-> 0]

Top(j) == d_stack[j][Len(d_stack[j])]
SetTop(j, f) == [d_stack EXCEPT ![j] = [@ EXCEPT ![Len(@)] = f]]

\* One step of the trace: what ran, on the site or on an apex root, and
\* whether it found something.
Entry(step, at, found) == [step |-> step, at |-> at, found |-> found]
ProbeEntry(f, found) ==
    Entry(IF f.step = "candidate" THEN "homepage" ELSE f.step, f.ctx, found)

\* The trace follows the call for the URL of the job, not the calls for the
\* apex roots.
Log(j, e) == IF Len(d_stack[j]) = 1 THEN Append(d_trace[j], e) ELSE d_trace[j]

\* _fallback_discover_sitemaps found nothing for f.probe: the caller goes on
\* with the next apex root, or with the CSS fallback when none is left.
FallbackFailed(f) ==
    LET roots == IF f.ctx = "site" THEN ApexRoots(f.url) ELSE f.roots IN
    IF roots = <<>>
    THEN [f EXCEPT !.pc = "css", !.step = "none", !.roots = <<>>]
    ELSE [f EXCEPT !.pc = "validate", !.step = "default", !.ctx = "apex",
                   !.probe = Head(roots), !.roots = Tail(roots)]

\* A probe found nothing: _fallback_discover_sitemaps goes to the next one.
NextProbe(f) ==
    IF f.step = "default" THEN [f EXCEPT !.step = "cms"]
    ELSE IF f.step = "cms" THEN [f EXCEPT !.step = "homepage", !.pc = "homepage"]
    ELSE FallbackFailed(f)

\* A probe that goes on with the next probe after it returned sitemap URLs.
FallbackFoundGoesOn(f) == NextProbe(f)

\* A probe returned sitemap URLs.  For the site the caller continues with
\* them; for an apex root it sets `escalated`, leaves the loop and runs into
\* the CSS fallback that follows the loop.
FallbackFound(f) ==
    IF f.ctx = "site"
    THEN [f EXCEPT !.pc = "filter", !.step = "none"]
    ELSE [f EXCEPT !.pc = "css", !.step = "none"]

\* `return stats`: to _site_job, or to Step 8 of the calling
\* test_recursive_expansion, which returns the stats of the apex root when
\* they have leaves and goes on with its loop otherwise.
Return(j, stats, trace) ==
    IF Len(d_stack[j]) = 1
    THEN /\ d_stack' = [d_stack EXCEPT ![j] = <<>>]
         /\ d_result' = [d_result EXCEPT ![j] = stats]
         /\ d_trace' = [d_trace EXCEPT ![j] = trace]
    ELSE /\ d_trace' = [d_trace EXCEPT ![j] =
                           Append(trace, Entry("apex_expand", "apex", stats.leaves > 0))]
         /\ IF stats.leaves > 0
            THEN /\ d_stack' = [d_stack EXCEPT ![j] = <<>>]
                 /\ d_result' = [d_result EXCEPT ![j] = stats]
            ELSE /\ d_stack' = [d_stack EXCEPT ![j] = SubSeq(@, 1, Len(@) - 1)]
                 /\ UNCHANGED d_result

DiscoveryConstructed ==
    /\ d_budget = [h \in DiscoveryHosts |-> 0]
    /\ d_browser = [h \in DiscoveryHosts |-> 0]
    /\ d_robots_browser = [h \in DiscoveryHosts |-> 0]
    /\ d_robots_missed = FALSE
    /\ d_trace = [j \in DiscoveryJobs |-> <<>>]
    /\ d_result = [j \in DiscoveryJobs |-> NoResult]
    /\ d_site = [j \in DiscoveryJobs |-> NoUrl]

\* A run of main() on the given site URLs; a job without URL does not run.
DiscoveryRun(seeds) ==
    /\ DiscoveryConstructed
    /\ d_seed \in seeds
    /\ d_stack = [j \in DiscoveryJobs |->
                     IF d_seed[j] = NoUrl THEN <<>> ELSE <<Call(d_seed[j])>>]

\* One site (--site-concurrency 1, the default).
OneSite ==
    {f \in [DiscoveryJobs -> SeedUrls \cup {NoUrl}] :
        f["j1"] # NoUrl /\ f["j2"] = NoUrl}

\* Two sites of one host at the same time (--site-concurrency 2).
TwoSites ==
    {f \in [DiscoveryJobs -> SeedUrls] :
        /\ f["j1"] # f["j2"]
        /\ f["j1"].host = f["j2"].host}

DiscoveryStart == DiscoveryRun(OneSite)
DiscoveryPairStart == DiscoveryRun(TwoSites)
DiscoveryIdle == DiscoveryRun({[j \in DiscoveryJobs |-> NoUrl]})

\* Step 1 and Step 2: fetch_robots_txt_meta and parse_sitemaps_from_robots.
\* A 3xx or 403 answer is fetched again with a browser when
\* ROBOTS_BROWSER_RETRY is set; any other status from 400 on gives no text.
FetchRobots(j) ==
    /\ d_stack[j] # <<>>
    /\ Top(j).pc = "robots"
    /\ \E status \in RobotsStatuses, body \in RobotsBodies :
          LET f == Top(j)
              host == f.url.host
              blocked == status \in 300..399 \/ status = 403
              retried == blocked /\ ROBOTS_BROWSER_RETRY
              text == IF retried THEN body
                      ELSE IF blocked \/ status >= 400 THEN "empty"
                      ELSE body
              probing == [f EXCEPT !.pc = "validate", !.step = "default",
                                   !.ctx = "site", !.probe = f.url]
          IN  /\ d_robots_browser' = [d_robots_browser EXCEPT ![host] =
                                         IF retried THEN Counted(@) ELSE @]
              /\ d_robots_missed' = (d_robots_missed
                                        \/ ((blocked \/ status = 401) /\ ~retried))
              /\ d_stack' = SetTop(j,
                    IF text = "empty" THEN [probing EXCEPT !.trigger = "no_robots"]
                    ELSE IF text = "nositemaps" THEN [probing EXCEPT !.trigger = "no_sitemaps"]
                    ELSE [f EXCEPT !.pc = "filter"])
              /\ d_trace' = [d_trace EXCEPT ![j] =
                                Log(j, Entry(IF text = "empty" THEN "no_robots" ELSE "robots",
                                             "site", text = "sitemaps"))]
    /\ UNCHANGED <<d_seed, d_budget, d_browser, d_result, d_site>>
    /\ UNCHANGED nonDiscoveryVars

\* _fetch_and_validate_sitemap for the candidate of a default-path probe, a
\* CMS-path probe or a homepage link, up to the test of the host budget.
FetchAndValidateSitemap(j) ==
    /\ d_stack[j] # <<>>
    /\ Top(j).pc = "validate"
    /\ \E r \in FetchResults :
          LET f == Top(j)
              budget_used == d_budget[f.probe.host]
          IN  IF r = "blocked" /\ SITEMAP_BROWSER_RETRY_ENABLED /\ budget_used < 1
              THEN /\ d_stack' = SetTop(j, [f EXCEPT !.pc = "browser", !.used = budget_used])
                   /\ UNCHANGED d_trace
              ELSE /\ d_stack' = SetTop(j, IF r = "sitemap" THEN FallbackFound(f)
                                           ELSE NextProbe(f))
                   /\ d_trace' = [d_trace EXCEPT ![j] = Log(j, ProbeEntry(f, r = "sitemap"))]
    /\ UNCHANGED <<d_seed, d_budget, d_browser, d_robots_browser, d_robots_missed,
                   d_result, d_site>>
    /\ UNCHANGED nonDiscoveryVars

\* The browser fetch of _fetch_and_validate_sitemap and the write of the
\* host budget that follows it.
BrowserRetry(j) ==
    /\ d_stack[j] # <<>>
    /\ Top(j).pc = "browser"
    /\ \E html \in {"sitemap", "none"} :
          LET f == Top(j)
              host == f.probe.host
              g == [f EXCEPT !.pc = "validate", !.used = 0]
          IN  /\ d_browser' = [d_browser EXCEPT ![host] = Counted(@)]
              /\ d_budget' = [d_budget EXCEPT ![host] = f.used + 1]
              /\ d_stack' = SetTop(j, IF html = "sitemap" THEN FallbackFound(g)
                                      ELSE NextProbe(g))
              /\ d_trace' = [d_trace EXCEPT ![j] = Log(j, ProbeEntry(f, html = "sitemap"))]
    /\ UNCHANGED <<d_seed, d_robots_browser, d_robots_missed, d_result, d_site>>
    /\ UNCHANGED nonDiscoveryVars

\* _extract_sitemap_links_from_homepage: a blocked homepage is fetched with a
\* browser; the host budget is neither read nor written.
ExtractHomepageLinks(j) ==
    /\ d_stack[j] # <<>>
    /\ Top(j).pc = "homepage"
    /\ \E r \in HomepageResults, html \in {"links", "nolinks"} :
          LET f == Top(j)
              host == f.probe.host
              rendered == r = "blocked" /\ SITEMAP_BROWSER_RETRY_ENABLED
              links == IF rendered THEN html = "links" ELSE r = "links"
          IN  /\ d_browser' = [d_browser EXCEPT ![host] = IF rendered THEN Counted(@) ELSE @]
              /\ IF links
                 THEN /\ d_stack' = SetTop(j, [f EXCEPT !.step = "candidate", !.pc = "validate"])
                      /\ UNCHANGED d_trace
                 ELSE /\ d_stack' = SetTop(j, FallbackFailed(f))
                      /\ d_trace' = [d_trace EXCEPT ![j] = Log(j, ProbeEntry(f, FALSE))]
    /\ UNCHANGED <<d_seed, d_budget, d_robots_browser, d_robots_missed, d_result, d_site>>
    /\ UNCHANGED nonDiscoveryVars

\* Steps 3 to 7: the filters, expand_recursive and the final filters; with a
\* leaf the call returns its stats, without one it goes to Step 8.
FilterAndExpand(j) ==
    /\ d_stack[j] # <<>>
    /\ Top(j).pc = "filter"
    /\ \E leaf \in LeafSitemaps :
          LET f == Top(j)
              trace == Log(j, Entry(IF leaf.kept /\ leaf.recent THEN "expand_recent" ELSE "expand", "site",
                                  LeavesKept(leaf) > 0))
          IN  IF LeavesKept(leaf) > 0
              THEN Return(j, Stats(f.url, LeavesKept(leaf), FALSE), trace)
              ELSE /\ d_stack' = SetTop(j, [f EXCEPT !.pc = "step8", !.roots = ApexRoots(f.url)])
                   /\ d_trace' = [d_trace EXCEPT ![j] = trace]
                   /\ UNCHANGED d_result
    /\ UNCHANGED <<d_seed, d_budget, d_browser, d_robots_browser, d_robots_missed, d_site>>
    /\ UNCHANGED nonDiscoveryVars

\* Step 8: test_recursive_expansion of the next apex root, or the CSS
\* fallback when no root is left.
ApexExpansion(j) ==
    /\ d_stack[j] # <<>>
    /\ Top(j).pc = "step8"
    /\ LET f == Top(j) IN
       IF f.roots = <<>>
       THEN d_stack' = SetTop(j, [f EXCEPT !.pc = "css8"])
       ELSE d_stack' = [d_stack EXCEPT ![j] =
                           Append(SubSeq(@, 1, Len(@) - 1), [f EXCEPT !.roots = Tail(f.roots)])
                           \o <<Call(Head(f.roots))>>]
    /\ UNCHANGED <<d_seed, d_budget, d_browser, d_robots_browser, d_robots_missed,
                   d_trace, d_result, d_site>>
    /\ UNCHANGED nonDiscoveryVars

\* The CSS fallback of the branches without robots.txt and without sitemaps
\* in robots.txt (_css_crawler_or_single), then `return stats`.
CssFallback(j) ==
    /\ d_stack[j] # <<>>
    /\ Top(j).pc = "css"
    /\ \E ok \in BOOLEAN :
          LET f == Top(j) IN
          IF CSS_FALLBACK_DISABLED
          THEN Return(j, Stats(f.url, 0, FALSE), d_trace[j])
          ELSE Return(j, Stats(f.url, 0, ok), Log(j, Entry("css", "site", ok)))
    /\ UNCHANGED <<d_seed, d_budget, d_browser, d_robots_browser, d_robots_missed, d_site>>
    /\ UNCHANGED nonDiscoveryVars

\* The CSS fallback of Step 8 (_css_selector_fallback), then `return stats`.
CssSelectorFallback(j) ==
    /\ d_stack[j] # <<>>
    /\ Top(j).pc = "css8"
    /\ \E ok \in BOOLEAN :
          LET f == Top(j) IN
          IF CSS_FALLBACK_DISABLED
          THEN Return(j, Stats(f.url, 0, FALSE), d_trace[j])
          ELSE Return(j, Stats(f.url, 0, ok), Log(j, Entry("css", "site", ok)))
    /\ UNCHANGED <<d_seed, d_budget, d_browser, d_robots_browser, d_robots_missed, d_site>>
    /\ UNCHANGED nonDiscoveryVars

\* _site_job streams the stats as `result`; _normalize_targets builds the
\* targets of the row and process_site writes their items with
\* site = result.url.
WriteItem(j) ==
    /\ d_stack[j] = <<>>
    /\ d_result[j] # NoResult
    /\ d_site[j] = NoUrl
    /\ d_result[j].leaves > 0 \/ d_result[j].css
    /\ d_site' = [d_site EXCEPT ![j] = d_result[j].url]
    /\ UNCHANGED <<d_seed, d_stack, d_budget, d_browser, d_robots_browser,
                   d_robots_missed, d_trace, d_result>>
    /\ UNCHANGED nonDiscoveryVars

NextDiscovery ==
    \E j \in DiscoveryJobs :
       \/ FetchRobots(j)
       \/ FetchAndValidateSitemap(j)
       \/ BrowserRetry(j)
       \/ ExtractHomepageLinks(j)
       \/ FilterAndExpand(j)
       \/ ApexExpansion(j)
       \/ CssFallback(j)
       \/ CssSelectorFallback(j)
       \/ WriteItem(j)

(***************************************************************************)
(* Sitemap filters (sitemap_filters.py), the sampling of a urlset leaf and *)
(* the parsers of the detector's reply.  A datetime is a number of hours   *)
(* on the UTC clock; an Optional value is <<>> (None) or <<v>>.            *)
(***************************************************************************)
None == <<>>
Some(v) == <<v>>
Value(o) == o[1]

Digits == {"0", "1", "2", "3", "4", "5", "6", "7", "8", "9"}

DigitValue(c) ==
    CASE c = "0" -> 0 [] c = "1" -> 1 [] c = "2" -> 2 [] c = "3" -> 3
      [] c = "4" -> 4 [] c = "5" -> 5 [] c = "6" -> 6 [] c = "7" -> 7
      [] c = "8" -> 8 [] c = "9" -> 9

\* year_pattern r'(19[5-9]\d|20[0-3]\d)' matches the four characters at i.
YearPattern(text, i) ==
    /\ i + 3 <= Len(text)
    /\ \/ /\ text[i] = "1" /\ text[i + 1] = "9"
          /\ text[i + 2] \in {"5", "6", "7", "8", "9"}
       \/ /\ text[i] = "2" /\ text[i + 1] = "0"
          /\ text[i + 2] \in {"0", "1", "2", "3"}
    /\ text[i + 3] \in Digits

\* int(y) of the match at i.
YearValue(text, i) ==
    1000 * DigitValue(text[i]) + 100 * DigitValue(text[i + 1])
    + 10 * DigitValue(text[i + 2]) + DigitValue(text[i + 3])

\* re.findall scans from the left; the scan goes on after the end of a match.
RECURSIVE FindAll(_, _)
FindAll(text, i) ==
    IF i > Len(text) THEN <<>>
    ELSE IF YearPattern(text, i)
    THEN <<YearValue(text, i)>> \o FindAll(text, i + 4)
    ELSE FindAll(text, i + 1)

\* years_found = [int(y) for y in re.findall(year_pattern, url)]
YearsFound(text) == FindAll(text, 1)

\* filter_sitemaps_by_year and the year filters of test_recursive_expansion:
\* kept when no year is found or every year found is the current one.
YearKept(text, current_year) ==
    LET years_found == YearsFound(text)
    IN  years_found = <<>>
        \/ \A k \in DOMAIN years_found : years_found[k] = current_year

\* extract_date_from_url: `matches` are the patterns that match the URL, in
\* the order the function tries them; a match is None when building its
\* datetime raises ValueError, and then the next pattern is tried.
RECURSIVE ExtractDateFromUrl(_)
ExtractDateFromUrl(matches) ==
    IF matches = <<>> THEN None
    ELSE IF Head(matches) # None THEN Head(matches)
    ELSE ExtractDateFromUrl(Tail(matches))

\* An age test without the limit on dates in the future.
AgeKeptAnyFuture(date, now, hours_threshold) == now - date <= hours_threshold

\* filter_by_date: the age test applied to the URL date or the lastmod.
AgeKept(date, now, hours_threshold) ==
    LET age_hours == now - date
    IN  IF age_hours < 0 THEN (0 - age_hours) <= 24
        ELSE age_hours <= hours_threshold

\* filter_by_date: URL date first, then the XML lastmod, then `conservative`.
FilterByDate(matches, hours_threshold, conservative, xml_lastmod, now) ==
    LET url_date == ExtractDateFromUrl(matches)
    IN  IF url_date # None THEN AgeKept(Value(url_date), now, hours_threshold)
        ELSE IF xml_lastmod # None
        THEN AgeKept(Value(xml_lastmod), now, hours_threshold)
        ELSE conservative

\* The text of a <lastmod> or publication_date element: absent or empty,
\* not a date, or a W3C datetime of a clock reading and a UTC offset.
NoText == [kind |-> "none", clock |-> 0, offset |-> 0, aware |-> FALSE]
BadText == [kind |-> "bad", clock |-> 0, offset |-> 0, aware |-> FALSE]
W3c(clock, offset, aware) ==
    [kind |-> "w3c", clock |-> clock, offset |-> offset, aware |-> aware]

\* _parse_w3c_datetime: a naive datetime is taken as UTC, an aware one is
\* converted to UTC; text that is not a date gives None.
ParseW3cDatetime(value) ==
    IF value.kind # "w3c" THEN None
    ELSE IF value.aware THEN Some(value.clock - value.offset)
    ELSE Some(value.clock)

LastmodTexts == {NoText, BadText, W3c(24, 0, TRUE), W3c(78, 6, TRUE), W3c(120, 0, FALSE)}
PublicationTexts == {NoText, W3c(72, 0, TRUE)}

\* The title, headline or name tag below a <url>: none, one with empty text,
\* one with text.
TitleTags == {"none", "blank", "text"}

UrlNodes == [lastmod : LastmodTexts, publication_date : PublicationTexts,
             title : TitleTags]

Min(a, b) == IF a < b THEN a ELSE b

\* expand_recursive: the positions of sample_nodes, the first top_k = 5 nodes
\* and the last bottom_k = 5 of a longer list, each node once.
SampleNodes(url_nodes) ==
    LET n == Len(url_nodes)
        first_part == [i \in 1 .. Min(5, n) |-> i]
        last_part == IF n > 5
                     THEN [i \in 1 .. 5 |-> n - 5 + i]
                     ELSE <<>>
    IN  first_part \o SelectSeq(last_part, LAMBDA p : p > 5)

\* expand_recursive: one pass of the loop over sample_nodes.
SampleStep(acc, url_node, recent_hours, now, require_title) ==
    LET dtxt == IF url_node.lastmod.kind # "none" THEN url_node.lastmod
                ELSE url_node.publication_date
        title_found == acc.title_found
                       \/ (require_title /\ url_node.title = "text")
        dt == ParseW3cDatetime(dtxt)
    IN  IF dt = None
        THEN [acc EXCEPT !.title_found = title_found]
        ELSE [recent_count |-> IF now - Value(dt) <= recent_hours
                               THEN acc.recent_count + 1
                               ELSE acc.recent_count,
              latest_dt |-> IF acc.latest_dt = None \/ Value(dt) > Value(acc.latest_dt)
                            THEN dt ELSE acc.latest_dt,
              title_found |-> title_found]

RECURSIVE ScanSample(_, _, _, _, _, _)
ScanSample(acc, url_nodes, sample, recent_hours, now, require_title) ==
    IF sample = <<>> THEN acc
    ELSE ScanSample(SampleStep(acc, url_nodes[Head(sample)], recent_hours, now,
                               require_title),
                    url_nodes, Tail(sample), recent_hours, now, require_title)

\* A leaf decision that never asks for a title.
LeafDecisionUntitled(url_nodes, recent_hours, now, require_title) ==
    LET acc == ScanSample([recent_count |-> 0, latest_dt |-> None,
                           title_found |-> FALSE],
                          url_nodes, SampleNodes(url_nodes), recent_hours, now,
                          require_title)
    IN  [accepted |-> acc.recent_count >= 1, latest_dt |-> acc.latest_dt]

\* expand_recursive on a urlset: whether the leaf is accepted, and the latest
\* sampled date kept for the final date filter.
LeafDecision(url_nodes, recent_hours, now, require_title) ==
    LET acc == ScanSample([recent_count |-> 0, latest_dt |-> None,
                           title_found |-> FALSE],
                          url_nodes, SampleNodes(url_nodes), recent_hours, now,
                          require_title)
    IN  [accepted |-> acc.recent_count >= 1 /\ (~require_title \/ acc.title_found),
         latest_dt |-> acc.latest_dt]

\* A field path of the detector's reply: a tag path, text with other
\* characters, or no text at all.
PathKinds == {"safe", "unsafe", "blank"}

DetectorReplies ==
    {[parsed |-> TRUE, fields |-> f] :
        f \in UNION {[S -> PathKinds] : S \in SUBSET FieldNames}}
    \cup {[parsed |-> FALSE, fields |-> <<>>]}

\* _parse_sitemap_selector_response of searching_pipeline.py.
ParseSitemapSelectorResponse(reply) ==
    LET fields == reply.fields
        valid_fields == {k \in DOMAIN fields : fields[k] = "safe"}
    IN  IF ~reply.parsed \/ DOMAIN fields = {} \/ "url" \notin DOMAIN fields
           \/ valid_fields = {}
        THEN [ok |-> FALSE, fields |-> <<>>, method |-> "none"]
        ELSE [ok |-> TRUE, fields |-> [k \in valid_fields |-> fields[k]],
              method |-> "llm"]

NowInstants == {72, 96}
RecentHours == {24, 48}
CurrentYears == {2026, 2031}

\* The characters of a URL, in pieces.
Chunks == {<<"2", "0">>, <<"2", "6">>, <<"3", "1">>, <<"1", "9">>,
           <<"9", "9">>, <<"9">>, <<"-">>}

RECURSIVE Texts(_)
Texts(n) ==
    IF n = 0 THEN {<<>>}
    ELSE Texts(n - 1) \cup {t \o c : t \in Texts(n - 1), c \in Chunks}

RECURSIVE SeqsUpTo(_, _)
SeqsUpTo(S, n) ==
    IF n = 0 THEN {<<>>}
    ELSE SeqsUpTo(S, n - 1) \cup {Append(s, e) : s \in SeqsUpTo(S, n - 1), e \in S}

Instants == {0, 24, 48, 72, 96, 120}

YearInputs ==
    [op : {"year"}, text : Texts(MaxChunks), current_year : CurrentYears]

DateInputs ==
    [op : {"date"},
     matches : SeqsUpTo({None} \cup {Some(d) : d \in Instants}, MaxMatches),
     xml_lastmod : {None, Some(24), Some(72)},
     hours_threshold : RecentHours, conservative : BOOLEAN, now : NowInstants]

\* A urlset too long to be sampled whole: `node` between five nodes without
\* a date or a title before it and five after it.
LongUrlset(node) ==
    LET filler == [lastmod |-> NoText, publication_date |-> NoText, title |-> "none"]
    IN  [i \in 1 .. 11 |-> IF i = 6 THEN node ELSE filler]

LeafInputs ==
    [op : {"leaf"},
     url_nodes : SeqsUpTo(UrlNodes, MaxNodes) \cup {LongUrlset(n) : n \in UrlNodes},
     recent_hours : RecentHours, require_title : BOOLEAN, now : {72}]

ReplyInputs == [op : {"reply"}, reply : DetectorReplies]

FiltersStart ==
    /\ f_in \in YearInputs \cup DateInputs \cup LeafInputs \cup ReplyInputs
    /\ f_out = <<>>

\* The filters left alone by the specifications of the other subsystems.
FiltersIdle ==
    /\ f_in = [op |-> "none"]
    /\ f_out = <<>>

\* filter_sitemaps_by_year on one URL.
FilterByYearCall ==
    /\ f_in.op = "year" /\ f_out = <<>>
    /\ f_out' = <<"filter_sitemaps_by_year", YearKept(f_in.text, f_in.current_year)>>
    /\ UNCHANGED <<f_in>>
    /\ UNCHANGED nonFilterVars

\* filter_by_date on one URL.
FilterByDateCall ==
    /\ f_in.op = "date" /\ f_out = <<>>
    /\ f_out' = <<"filter_by_date",
                FilterByDate(f_in.matches, f_in.hours_threshold,
                             f_in.conservative, f_in.xml_lastmod, f_in.now)>>
    /\ UNCHANGED <<f_in>>
    /\ UNCHANGED nonFilterVars

\* expand_recursive on a urlset.
SampleLeaf ==
    /\ f_in.op = "leaf" /\ f_out = <<>>
    /\ f_out' = <<"expand_recursive",
                LeafDecision(f_in.url_nodes, f_in.recent_hours, f_in.now,
                             f_in.require_title)>>
    /\ UNCHANGED <<f_in>>
    /\ UNCHANGED nonFilterVars

\* _detect_selectors_with_llm of selection_extraction_pipeline.py parses the
\* reply with _parse_llm_response.
ParseLlmReply ==
    /\ f_in.op = "reply" /\ f_out = <<>>
    /\ f_out' = <<"_parse_llm_response", ParseLlmResponse(f_in.reply)>>
    /\ UNCHANGED <<f_in>>
    /\ UNCHANGED nonFilterVars

\* _detect_selectors_from_xml_with_llm of searching_pipeline.py parses the
\* reply with _parse_sitemap_selector_response.
ParseSelectorReply ==
    /\ f_in.op = "reply" /\ f_out = <<>>
    /\ f_out' = <<"_parse_sitemap_selector_response",
                ParseSitemapSelectorResponse(f_in.reply)>>
    /\ UNCHANGED <<f_in>>
    /\ UNCHANGED nonFilterVars

NextFilters ==
    \/ FilterByYearCall
    \/ FilterByDateCall
    \/ SampleLeaf
    \/ ParseLlmReply
    \/ ParseSelectorReply

(***************************************************************************)
(* Recursive expansion: the filters at the level of robots.txt, the calls  *)
(* of expand_recursive and the final filtering of the collected leaves     *)
(* (test_recursive_expansion, steps 3 to 7).                               *)
(***************************************************************************)

\* A sitemap URL: its location, the word of REJECT_WORDS_PATTERN found in it
\* ("" when none), its characters as the year pattern sees them, and the date
\* patterns that match it.
SitemapUrl(loc, word, text, matches) ==
    [loc |-> loc, word |-> word, text |-> text, matches |-> matches]

RootIndex == SitemapUrl("/sitemap.xml", "", <<>>, <<>>)
NewsIndex == SitemapUrl("/sitemap-news.xml", "", <<>>, <<>>)
VideoMap == SitemapUrl("/video/sitemap.xml", "video", <<>>, <<>>)
OldYearMap == SitemapUrl("/sitemap-2019.xml", "", <<"2", "0", "1", "9">>, <<>>)
OldDayMap ==
    SitemapUrl("/sitemap-2026-10-31.xml", "",
               <<"2", "0", "2", "6", "-", "1", "0", "-", "3", "1">>, <<Some(0)>>)
LeafMap == SitemapUrl("/news.xml", "", <<>>, <<>>)

SitemapUrls == {RootIndex, NewsIndex, VideoMap, OldYearMap, OldDayMap, LeafMap}
Locs == {u.loc : u \in SitemapUrls}

\* recent_hours, datetime.now(timezone.utc) in hours, and datetime.now().year.
ExpandClock == [recent_hours |-> 24, now |-> 72, current_year |-> 2026]

\* A <sitemap> of an index: its loc and the text of its lastmod.
Child(url, lastmod) == [url |-> url, lastmod |-> lastmod]

\* What a fetch of a sitemap URL gives: nothing or no XML, an index, a urlset.
NoDocument == [tag |-> "none", children |-> <<>>, url_nodes |-> <<>>]
SitemapIndex(children) ==
    [tag |-> "sitemapindex", children |-> children, url_nodes |-> <<>>]
UrlSet(url_nodes) == [tag |-> "urlset", children |-> <<>>, url_nodes |-> url_nodes]

UrlNode(lastmod, title) ==
    [lastmod |-> lastmod, publication_date |-> NoText, title |-> title]

\* The index at /sitemap.xml lists itself, the other index and the leaves;
\* /news.xml is listed once with an old lastmod and once with a recent one.
RootChildren ==
    <<Child(RootIndex, NoText), Child(VideoMap, NoText), Child(OldYearMap, NoText),
      Child(OldDayMap, W3c(78, 6, TRUE)), Child(LeafMap, W3c(24, 0, TRUE)),
      Child(NewsIndex, NoText), Child(LeafMap, W3c(78, 6, TRUE))>>

NewsDocuments ==
    {SitemapIndex(<<Child(RootIndex, NoText), Child(LeafMap, NoText)>>), NoDocument}

LeafDocuments ==
    {UrlSet(<<UrlNode(W3c(78, 6, TRUE), "text")>>),
     UrlSet(<<UrlNode(W3c(78, 6, TRUE), "text"), UrlNode(W3c(120, 0, FALSE), "none")>>),
     UrlSet(<<UrlNode(W3c(24, 0, TRUE), "text")>>),
     UrlSet(<<UrlNode(W3c(78, 6, TRUE), "blank")>>)}

Webs ==
    {[l \in Locs |->
        IF l = RootIndex.loc THEN SitemapIndex(RootChildren)
        ELSE IF l = NewsIndex.loc THEN news
        ELSE IF l = LeafMap.loc THEN leaf
        ELSE NoDocument] : news \in NewsDocuments, leaf \in LeafDocuments}

RobotsSitemaps ==
    {<<RootIndex>>, <<VideoMap, RootIndex, OldYearMap, OldDayMap>>,
     <<LeafMap, NewsIndex>>}

\* filter_by_words.
FilterByWords(url) == url.word = ""

\* The year filter with the year of the clock.
FilterByYear(url) == YearKept(url.text, ExpandClock.current_year)

\* filter_by_date(url, hours_threshold=recent_hours, conservative=True,
\* xml_lastmod=xml_lastmod).
DateKept(url, xml_lastmod) ==
    FilterByDate(url.matches, ExpandClock.recent_hours, TRUE, xml_lastmod,
                 ExpandClock.now)

\* A date filter of the children that does not look at their lastmod.
ChildDateKeptByUrl(child) == DateKept(child.url, None)

\* expand_recursive: the date filter of a child, with the child's lastmod.
ChildDateKept(child) == DateKept(child.url, ParseW3cDatetime(child.lastmod))

\* The reason given with a rejection at the level of robots.txt.
Reason(url, filter) ==
    IF filter = "word" THEN url.word
    ELSE IF filter = "year" THEN "old years"
    ELSE IF ExtractDateFromUrl(url.matches) = None THEN "No date in URL or XML"
    ELSE IF ExpandClock.now < Value(ExtractDateFromUrl(url.matches))
    THEN "Far future URL date"
    ELSE "Old URL date"

\* stats["robotsTxt"]["rejected"].append({"url", "filter", "reason"}) for each
\* URL of `urls`.
RejectedRecords(urls, filter) ==
    [i \in DOMAIN urls |->
        [url |-> urls[i].loc, filter |-> filter, reason |-> Reason(urls[i], filter)]]

\* The rejections of `urls` by `filter` at `level`, for the history.
Rejections(urls, filter, level) ==
    {[url |-> urls[i].loc, filter |-> filter, level |-> level] : i \in DOMAIN urls}

NoChildren == [word |-> <<>>, year |-> <<>>, date |-> <<>>, found |-> 0]

ExpandConstructed ==
    /\ x_phase = "filter"
    /\ x_sitemaps = <<>>
    /\ x_stack = <<>>
    /\ x_fetched = <<>>
    /\ x_rejected = <<>>
    /\ x_children = NoChildren
    /\ x_all_leaves = <<>>
    /\ x_lastmod = [l \in Locs |-> None]
    /\ x_date_kept = <<>>
    /\ x_log = {}

ExpandStart ==
    /\ x_robots \in RobotsSitemaps
    /\ x_web \in Webs
    /\ x_max_depth \in 1 .. MaxDepth
    /\ ExpandConstructed

\* The expansion left alone by the specifications of the other subsystems.
ExpandIdle ==
    /\ x_robots = <<>>
    /\ x_web = [l \in Locs |-> NoDocument]
    /\ x_max_depth = 1
    /\ x_phase = "idle"
    /\ x_sitemaps = <<>>
    /\ x_stack = <<>>
    /\ x_fetched = <<>>
    /\ x_rejected = <<>>
    /\ x_children = NoChildren
    /\ x_all_leaves = <<>>
    /\ x_lastmod = [l \in Locs |-> None]
    /\ x_date_kept = <<>>
    /\ x_log = {}

\* test_recursive_expansion, steps 3 to 5: the word, year and date filters
\* over the sitemaps of robots.txt, each rejection recorded.
RobotsLevelFilters ==
    /\ x_phase = "filter"
    /\ LET word_kept == SelectSeq(x_robots, FilterByWords)
           word_rejected == SelectSeq(x_robots, LAMBDA sm : ~FilterByWords(sm))
           year_kept == SelectSeq(word_kept, FilterByYear)
           year_rejected == SelectSeq(word_kept, LAMBDA sm : ~FilterByYear(sm))
           date_kept == SelectSeq(year_kept, LAMBDA sm : DateKept(sm, None))
           date_rejected == SelectSeq(year_kept, LAMBDA sm : ~DateKept(sm, None))
       IN  /\ x_sitemaps' = date_kept
           /\ x_rejected' = RejectedRecords(word_rejected, "word")
                            \o RejectedRecords(year_rejected, "year")
                            \o RejectedRecords(date_rejected, "date")
           /\ x_log' = Rejections(word_rejected, "word", "robots")
                       \cup Rejections(year_rejected, "year", "robots")
                       \cup Rejections(date_rejected, "date", "robots")
    /\ x_phase' = "expand"
    /\ UNCHANGED <<x_robots, x_web, x_max_depth, x_stack, x_fetched, x_children,
                   x_all_leaves, x_lastmod, x_date_kept>>
    /\ UNCHANGED nonExpandVars

\* A test of the depth that lets the call at max_depth through.
DepthPassed(depth, max_depth) == depth > max_depth

\* expand_recursive: `if depth >= max_depth: return []`.
DepthReached(depth, max_depth) == depth >= max_depth

\* A call in progress: an index whose children are gone through.
Frame(url, depth, children) ==
    [url |-> url, depth |-> depth, children |-> children,
     count |-> Len(children), leaves |-> <<>>]

\* expand_recursive(url, depth, max_depth) up to its first child: whether it
\* fetches, the index it goes through, or the leaves it returns at once.
Expand(url, depth) ==
    LET document == x_web[url.loc]
        decision == LeafDecision(document.url_nodes, ExpandClock.recent_hours,
                                 ExpandClock.now, SITEMAP_REQUIRE_ANY_TITLE)
    IN  IF DepthReached(depth, x_max_depth)
        THEN [fetch |-> FALSE, index |-> FALSE, leaves |-> <<>>, latest_dt |-> None]
        ELSE IF document.tag = "sitemapindex"
        THEN [fetch |-> TRUE, index |-> TRUE, leaves |-> <<>>, latest_dt |-> None]
        ELSE IF document.tag = "urlset" /\ decision.accepted
        THEN [fetch |-> TRUE, index |-> FALSE, leaves |-> <<url>>,
              latest_dt |-> decision.latest_dt]
        ELSE [fetch |-> TRUE, index |-> FALSE, leaves |-> <<>>, latest_dt |-> None]

\* `leaves` returned to the caller on top of `stack`, or to the loop over
\* `sitemaps` when there is no caller.
Returned(stack, leaves) ==
    /\ x_stack' = IF stack = <<>> THEN stack
                  ELSE [stack EXCEPT ![Len(stack)].leaves = @ \o leaves]
    /\ x_all_leaves' = IF stack = <<>> THEN x_all_leaves \o leaves
                       ELSE x_all_leaves

\* The call expand_recursive(url, depth, max_depth) made by `stack`.
Invoke(url, depth, stack) ==
    LET call == Expand(url, depth)
    IN  /\ x_fetched' = IF call.fetch
                        THEN Append(x_fetched, [url |-> url.loc, depth |-> depth])
                        ELSE x_fetched
        /\ x_lastmod' = IF call.leaves # <<>>
                        THEN [x_lastmod EXCEPT ![url.loc] = call.latest_dt]
                        ELSE x_lastmod
        /\ IF call.index
           THEN /\ x_stack' = Append(stack, Frame(url, depth, x_web[url.loc].children))
                /\ x_all_leaves' = x_all_leaves
           ELSE Returned(stack, call.leaves)

\* test_recursive_expansion, step 6: expand_recursive(sm, depth=0) for the
\* next of `sitemaps`.
ExpandSitemap ==
    /\ x_phase = "expand"
    /\ x_stack = <<>>
    /\ x_sitemaps # <<>>
    /\ x_sitemaps' = Tail(x_sitemaps)
    /\ Invoke(Head(x_sitemaps), 0, <<>>)
    /\ UNCHANGED <<x_robots, x_web, x_max_depth, x_phase, x_rejected, x_children,
                   x_date_kept, x_log>>
    /\ UNCHANGED nonExpandVars

\* expand_recursive on an index: the next child goes through the word, the
\* year and the date filter; a rejected child is put on the list of its
\* filter, an accepted one is expanded at depth + 1.
ExpandChild ==
    /\ x_stack # <<>>
    /\ x_stack[Len(x_stack)].children # <<>>
    /\ LET top == x_stack[Len(x_stack)]
           child == Head(top.children)
           stack == [x_stack EXCEPT ![Len(x_stack)].children = Tail(@)]
           filter == IF ~FilterByWords(child.url) THEN "word"
                     ELSE IF ~FilterByYear(child.url) THEN "year"
                     ELSE IF ~ChildDateKept(child) THEN "date"
                     ELSE "none"
       IN  IF filter = "none"
           THEN /\ Invoke(child.url, top.depth + 1, stack)
                /\ UNCHANGED <<x_children, x_log>>
           ELSE /\ x_children' = [x_children EXCEPT ![filter] = Append(@, child.url.loc)]
                /\ x_log' = x_log \cup Rejections(<<child.url>>, filter, "child")
                /\ x_stack' = stack
                /\ UNCHANGED <<x_fetched, x_lastmod, x_all_leaves>>
    /\ UNCHANGED <<x_robots, x_web, x_max_depth, x_phase, x_sitemaps, x_rejected,
                   x_date_kept>>
    /\ UNCHANGED nonExpandVars

\* expand_recursive on an index, after the last child: the children are
\* counted and the leaves returned.
ReturnLeaves ==
    /\ x_stack # <<>>
    /\ x_stack[Len(x_stack)].children = <<>>
    /\ LET top == x_stack[Len(x_stack)]
       IN  /\ x_children' = [x_children EXCEPT !.found = @ + top.count]
           /\ Returned(SubSeq(x_stack, 1, Len(x_stack) - 1), top.leaves)
    /\ UNCHANGED <<x_robots, x_web, x_max_depth, x_phase, x_sitemaps, x_fetched,
                   x_rejected, x_lastmod, x_date_kept, x_log>>
    /\ UNCHANGED nonExpandVars

\* list(dict.fromkeys(all_leaves))
RECURSIVE Deduplicate(_)
Deduplicate(leaves) ==
    IF leaves = <<>> THEN <<>>
    ELSE LET front == Deduplicate(SubSeq(leaves, 1, Len(leaves) - 1))
             last == leaves[Len(leaves)]
         IN  IF \E i \in DOMAIN front : front[i] = last THEN front
             ELSE Append(front, last)

\* A final filtering that keeps every collected leaf.
FinalFilteringSkipped(leaves, filter) ==
    IF filter = "kept" THEN leaves ELSE <<>>

\* test_recursive_expansion, step 7: the leaves kept by the final filtering
\* (filter = "kept") or rejected in it by `filter`.
FinalFiltering(leaves, filter) ==
    LET word_kept == SelectSeq(leaves, FilterByWords)
        year_kept == SelectSeq(word_kept, FilterByYear)
    IN  IF filter = "word" THEN SelectSeq(leaves, LAMBDA l : ~FilterByWords(l))
        ELSE IF filter = "year" THEN SelectSeq(word_kept, LAMBDA l : ~FilterByYear(l))
        ELSE IF filter = "date"
        THEN SelectSeq(year_kept, LAMBDA l : ~DateKept(l, x_lastmod[l.loc]))
        ELSE SelectSeq(year_kept, LAMBDA l : DateKept(l, x_lastmod[l.loc]))

\* test_recursive_expansion: the leaves are deduplicated and filtered again.
FilterLeaves ==
    /\ x_phase = "expand"
    /\ x_stack = <<>>
    /\ x_sitemaps = <<>>
    /\ x_all_leaves' = Deduplicate(x_all_leaves)
    /\ x_date_kept' = FinalFiltering(Deduplicate(x_all_leaves), "kept")
    /\ x_log' = x_log
                \cup Rejections(FinalFiltering(Deduplicate(x_all_leaves), "word"),
                                "word", "final")
                \cup Rejections(FinalFiltering(Deduplicate(x_all_leaves), "year"),
                                "year", "final")
                \cup Rejections(FinalFiltering(Deduplicate(x_all_leaves), "date"),
                                "date", "final")
    /\ x_phase' = "done"
    /\ UNCHANGED <<x_robots, x_web, x_max_depth, x_sitemaps, x_stack, x_fetched,
                   x_rejected, x_children, x_lastmod>>
    /\ UNCHANGED nonExpandVars

\* A list of rejected children as the report gives it: {"url", "filter"}
\* records, which carry no reason.
ChildRecords(urls, filter) ==
    [i \in DOMAIN urls |-> [url |-> urls[i], filter |-> filter, reason |-> ""]]

\* The rejections that the report of main holds: rejectedSitemaps,
\* rejectedByWord, rejectedByYear and rejectedByDate.
RejectionReport ==
    x_rejected \o ChildRecords(x_children.word, "word")
    \o ChildRecords(x_children.year, "year") \o ChildRecords(x_children.date, "date")

NextExpand ==
    \/ RobotsLevelFilters
    \/ ExpandSitemap
    \/ ExpandChild
    \/ ReturnLeaves
    \/ FilterLeaves

(***************************************************************************)
(* The CSS sections of the CSS fallback (_css_selector_fallback and        *)
(* _css_crawler_collect) and the extraction of the fields of a sitemap     *)
(* entry (expand_sitemap_entries_recent), as calls on an input.            *)
(***************************************************************************)

\* An accepted candidate section; the confidence is in hundredths.
Candidates ==
    [title : {"h2 a"}, link : {"a.story", "a.teaser"}, confidence : {30, 90}]

\* _signature: f"{title}|{link}".
Signature(selectors) == <<selectors.title, selectors.link>>

\* _css_selector_fallback, step 5: `if sig not in seen: seen[sig] = c`, the
\* values of `seen` in the order of insertion.
RECURSIVE UniqueSections(_)
UniqueSections(all_candidates) ==
    IF all_candidates = <<>> THEN <<>>
    ELSE LET front == UniqueSections(SubSeq(all_candidates, 1, Len(all_candidates) - 1))
             c == all_candidates[Len(all_candidates)]
         IN  IF \E i \in DOMAIN front : Signature(front[i]) = Signature(c)
             THEN front
             ELSE Append(front, c)

\* _css_crawler_collect: sections_all, the sections of the pages in the
\* order the pages are scanned.
RECURSIVE SectionsAll(_)
SectionsAll(pages) ==
    IF pages = <<>> THEN <<>>
    ELSE UniqueSections(Head(pages)) \o SectionsAll(Tail(pages))

\* _css_crawler_collect: by_sig, one entry per signature with the number of
\* sections and the section of the highest confidence, the first on a tie.
RECURSIVE BySig(_)
BySig(sections) ==
    IF sections = <<>> THEN <<>>
    ELSE LET front == BySig(SubSeq(sections, 1, Len(sections) - 1))
             sec == sections[Len(sections)]
         IN  IF \E i \in DOMAIN front : Signature(front[i].best) = Signature(sec)
             THEN [i \in DOMAIN front |->
                      IF Signature(front[i].best) # Signature(sec) THEN front[i]
                      ELSE [count |-> front[i].count + 1,
                            best |-> IF sec.confidence > front[i].best.confidence
                                     THEN sec ELSE front[i].best]]
             ELSE Append(front, [count |-> 1, best |-> sec])

\* The sort key (count, best_conf) of `a` is below the one of `b`.
RankedBelow(a, b) ==
    \/ a.count < b.count
    \/ a.count = b.count /\ a.best.confidence < b.best.confidence

\* sorted(..., reverse=True): the highest key first, equal keys in the order
\* they had.
RECURSIVE Ranked(_)
Ranked(entries) ==
    IF entries = <<>> THEN <<>>
    ELSE LET front == Ranked(SubSeq(entries, 1, Len(entries) - 1))
             e == entries[Len(entries)]
             ahead == SelectSeq(front, LAMBDA x : ~RankedBelow(x, e))
             behind == SelectSeq(front, LAMBDA x : RankedBelow(x, e))
         IN  ahead \o <<e>> \o behind

\* _css_crawler_collect: chosen_sections.
CssCrawlerCollect(pages) ==
    LET ranked == Ranked(BySig(SectionsAll(pages)))
    IN  [i \in DOMAIN ranked |-> ranked[i].best]

\* _css_crawler_or_single: the crawler over the homepage and the pages of
\* its navigation links, or _css_selector_fallback on the homepage alone.
CssCrawlerOrSingle(pages, crawler_enabled) ==
    IF crawler_enabled THEN CssCrawlerCollect(pages)
    ELSE UniqueSections(Head(pages))

\* The characters of the text of an element.
TextChars == {" ", "x", "y"}

\* str.strip(): the leading and the trailing blanks are dropped.
RECURSIVE LStrip(_)
LStrip(text) ==
    IF text # <<>> /\ Head(text) = " " THEN LStrip(Tail(text)) ELSE text

RECURSIVE RStrip(_)
RStrip(text) ==
    IF text # <<>> /\ text[Len(text)] = " "
    THEN RStrip(SubSeq(text, 1, Len(text) - 1)) ELSE text

Strip(text) == RStrip(LStrip(text))

\* An XML element: the local name of its tag, its text and its children.
Element(tag, text, children) == [tag |-> tag, text |-> text, children |-> children]

\* str.endswith on the tag names of the model.
EndsWith(tag, local_name) ==
    tag = local_name \/ (tag = "image_loc" /\ local_name = "loc")

\* _child_text_any_ns: the stripped text of the first child whose tag ends
\* with local_name and whose text is not blank; None without such a child.
RECURSIVE ChildTextAnyNs(_, _)
ChildTextAnyNs(children, local_name) ==
    IF children = <<>> THEN None
    ELSE IF EndsWith(Head(children).tag, local_name) /\ Strip(Head(children).text) # <<>>
    THEN Some(Strip(Head(children).text))
    ELSE ChildTextAnyNs(Tail(children), local_name)

\* The first child whose local name is tag_name, <<>> without one.
RECURSIVE FindChild(_, _)
FindChild(children, tag_name) ==
    IF children = <<>> THEN <<>>
    ELSE IF Head(children).tag = tag_name THEN <<Head(children)>>
    ELSE FindChild(Tail(children), tag_name)

\* A lookup that returns the text of the child as it stands in the document.
ExtractFieldByXpathRaw(element, xpath) ==
    LET found == IF xpath = <<>> THEN <<>> ELSE FindChild(element.children, xpath[1])
    IN  IF found = <<>> THEN None ELSE Some(found[1].text)

\* _extract_field_by_xpath: `xpath` is the list of the local names of the
\* path (the prefixes before ':' are dropped); a path of one name is looked
\* up with _child_text_any_ns, a longer one child by child.
ExtractFieldByXpath(element, xpath) ==
    IF xpath = <<>> THEN None
    ELSE IF Len(xpath) = 1 THEN ChildTextAnyNs(element.children, xpath[1])
    ELSE LET first == FindChild(element.children, xpath[1])
             second == IF first = <<>> THEN <<>>
                       ELSE FindChild(first[1].children, xpath[2])
         IN  IF second = <<>> THEN None ELSE Some(Strip(second[1].text))

\* The <url> elements of the model: <loc> with text X, alone, after an
\* <image:loc>, or with <news:news><news:title>, or no <loc> at all.
LocTexts == SeqsUpTo(TextChars, MaxText)

UrlElements ==
    {Element("url", <<>>, <<Element("loc", x, <<>>)>>) : x \in LocTexts}
    \cup {Element("url", <<>>, <<Element("image_loc", <<"y">>, <<>>),
                                 Element("loc", x, <<>>)>>) : x \in LocTexts}
    \cup {Element("url", <<>>,
                  <<Element("loc", x, <<>>),
                    Element("news", <<>>, <<Element("title", <<"y", " ">>, <<>>)>>)>>) :
             x \in LocTexts}
    \cup {Element("url", <<>>, <<Element("lastmod", <<"y">>, <<>>)>>)}

\* The field selectors of a leaf selector record: field name and path.
FieldSelectors ==
    {<<>>,
     <<[field |-> "url", xpath |-> <<"loc">>]>>,
     <<[field |-> "title", xpath |-> <<"news", "title">>]>>,
     <<[field |-> "url", xpath |-> <<"loc">>],
       [field |-> "title", xpath |-> <<"news", "title">>]>>}

\* expand_sitemap_entries_recent on a urlset: the fields of the entry of one
\* <url>, as pairs of field name and value.
RECURSIVE ExtractFields(_, _)
ExtractFields(u, field_selectors) ==
    IF field_selectors = <<>> THEN <<>>
    ELSE LET value == ExtractFieldByXpath(u, Head(field_selectors).xpath)
             rest == ExtractFields(u, Tail(field_selectors))
         IN  IF value # None /\ Value(value) # <<>>
             THEN <<[field |-> Head(field_selectors).field, value |-> Value(value)]>> \o rest
             ELSE rest

\* expand_sitemap_entries_recent on a urlset of the one <url> `u`: the
\* entries collected.  With a cutoff an entry needs a date; the <url>
\* elements of the model carry none that parses.
ExpandSitemapEntriesRecent(u, recent_hours, field_selectors) ==
    LET loc == ChildTextAnyNs(u.children, "loc")
        fields == ExtractFields(u, field_selectors)
        entry == IF field_selectors = <<>>
                 THEN <<[field |-> "url", value |-> Value(loc)]>>
                 ELSE IF \E i \in DOMAIN fields : fields[i].field = "url"
                 THEN fields
                 ELSE Append(fields, [field |-> "url", value |-> Value(loc)])
    IN  IF loc = None \/ recent_hours # 0 THEN <<>> ELSE <<entry>>

\* The accepted candidates of the homepage and of the page of a navigation
\* link, in the order the chunks gave them.
CssInputs ==
    [op : {"css"},
     pages : {<<home, nav>> : home \in SeqsUpTo(Candidates, MaxCandidates),
                              nav \in SeqsUpTo(Candidates, MaxCandidates)},
     crawler_enabled : BOOLEAN]

EntryInputs ==
    [op : {"entries"}, u : UrlElements, recent_hours : {0, 24},
     field_selectors : FieldSelectors]

SelectorsStart ==
    /\ f_in \in CssInputs \cup EntryInputs
    /\ f_out = <<>>

\* _css_crawler_or_single on a site.
CssCrawlerOrSingleCall ==
    /\ f_in.op = "css" /\ f_out = <<>>
    /\ f_out' = <<"_css_crawler_or_single",
                  CssCrawlerOrSingle(f_in.pages, f_in.crawler_enabled)>>
    /\ UNCHANGED <<f_in>>
    /\ UNCHANGED nonFilterVars

\* expand_sitemap_entries_recent on a urlset of one <url>.
ExpandEntriesCall ==
    /\ f_in.op = "entries" /\ f_out = <<>>
    /\ f_out' = <<"expand_sitemap_entries_recent",
                  ExpandSitemapEntriesRecent(f_in.u, f_in.recent_hours,
                                             f_in.field_selectors)>>
    /\ UNCHANGED <<f_in>>
    /\ UNCHANGED nonFilterVars

NextSelectors ==
    \/ CssCrawlerOrSingleCall
    \/ ExpandEntriesCall

(***************************************************************************)
(* The diagnostics of the heuristic fallback: the module flags _DIAG_FB_*, *)
(* the probes that set them and the site jobs that record them.            *)
(***************************************************************************)
Flags(block, attempted, success) ==
    [block_detected |-> block, browser_attempted |-> attempted,
     browser_success |-> success]

\* The values of the three flags at import and after a reset.
FlagsCleared == Flags(FALSE, FALSE, FALSE)

\* What a probe of the fallback discovery meets: a sitemap; nothing; a block
\* with the host budget used up; a block and a browser retry that gives
\* nothing or a sitemap; a blocked homepage that the browser renders.
ProbeOutcomes == {"found", "missing", "blocked", "retry_failed", "retry_found", "bypassed"}

\* The flags after a probe with outcome r (_fetch_and_validate_sitemap sets
\* block and attempted, _extract_sitemap_links_from_homepage also success).
FlagsAfterProbe(flags, r) ==
    Flags(flags.block_detected \/ r \in {"blocked", "retry_failed", "retry_found", "bypassed"},
          flags.browser_attempted \/ r \in {"retry_failed", "retry_found", "bypassed"},
          flags.browser_success \/ r = "bypassed")

\* heuristic_browser_retry_status of the diagnostics.
RetryStatus(flags) ==
    IF flags.browser_success THEN "bypassed"
    ELSE IF flags.browser_attempted THEN "failed"
    ELSE "not_attempted"

\* The diagnostics test_recursive_expansion writes from the flags.
Diagnostics(flags) ==
    [heuristic_block_detected |-> flags.block_detected,
     heuristic_browser_retry_attempted |-> flags.browser_attempted,
     heuristic_browser_retry_status |-> RetryStatus(flags)]

DiagConstructed ==
    /\ g_flags = FlagsCleared
    /\ g_pc = [j \in DiscoveryJobs |-> "queued"]
    /\ g_probes = [j \in DiscoveryJobs |-> 0]
    /\ g_own = [j \in DiscoveryJobs |-> FlagsCleared]
    /\ g_recorded = [j \in DiscoveryJobs |-> <<>>]

DiagStart ==
    /\ DiagConstructed
    /\ g_workers \in 1..Cardinality(DiscoveryJobs)

\* The diagnostics left alone by the specifications of the other subsystems.
DiagIdle ==
    /\ DiagConstructed
    /\ g_workers = 1

\* The site jobs that a worker of main() is running.
DiagRunning == {j \in DiscoveryJobs : g_pc[j] \notin {"queued", "done"}}

\* main: a worker takes the site job; the job finds no robots.txt and is
\* about to reset the flags.
SiteJobStart(j) ==
    /\ g_pc[j] = "queued"
    /\ Cardinality(DiagRunning) < g_workers
    /\ g_pc' = [g_pc EXCEPT ![j] = "reset"]
    /\ UNCHANGED <<g_workers, g_flags, g_probes, g_own, g_recorded>>
    /\ UNCHANGED nonDiagVars

\* test_recursive_expansion: the three flags are set to False before
\* _fallback_discover_sitemaps.
ResetDiagnostics(j) ==
    /\ g_pc[j] = "reset"
    /\ g_flags' = FlagsCleared
    /\ g_own' = [g_own EXCEPT ![j] = FlagsCleared]
    /\ g_pc' = [g_pc EXCEPT ![j] = "probing"]
    /\ UNCHANGED <<g_workers, g_probes, g_recorded>>
    /\ UNCHANGED nonDiagVars

\* One probe of _fallback_discover_sitemaps: the flags are set by what the
\* probe meets; a sitemap ends the discovery.
FallbackProbe(j) ==
    /\ g_pc[j] = "probing"
    /\ g_probes[j] < MaxProbes
    /\ \E r \in ProbeOutcomes :
          /\ g_flags' = FlagsAfterProbe(g_flags, r)
          /\ g_own' = [g_own EXCEPT ![j] = FlagsAfterProbe(@, r)]
          /\ g_pc' = [g_pc EXCEPT ![j] =
                         IF r \in {"found", "retry_found"} THEN "record" ELSE @]
    /\ g_probes' = [g_probes EXCEPT ![j] = @ + 1]
    /\ UNCHANGED <<g_workers, g_recorded>>
    /\ UNCHANGED nonDiagVars

\* _fallback_discover_sitemaps returns no URL: no heuristic diagnostics are
\* written and the job goes on with the apex roots and the CSS fallback.
FallbackGivesUp(j) ==
    /\ g_pc[j] = "probing"
    /\ g_probes[j] = MaxProbes
    /\ g_pc' = [g_pc EXCEPT ![j] = "done"]
    /\ UNCHANGED <<g_workers, g_flags, g_probes, g_own, g_recorded>>
    /\ UNCHANGED nonDiagVars

\* test_recursive_expansion: the diagnostics of the site are written from
\* the flags after _fallback_discover_sitemaps returned sitemap URLs.
RecordDiagnostics(j) ==
    /\ g_pc[j] = "record"
    /\ g_recorded' = [g_recorded EXCEPT ![j] = <<Diagnostics(g_flags)>>]
    /\ g_pc' = [g_pc EXCEPT ![j] = "done"]
    /\ UNCHANGED <<g_workers, g_flags, g_probes, g_own>>
    /\ UNCHANGED nonDiagVars

NextDiag ==
    \E j \in DiscoveryJobs :
       \/ SiteJobStart(j)
       \/ ResetDiagnostics(j)
       \/ FallbackProbe(j)
       \/ FallbackGivesUp(j)
       \/ RecordDiagnostics(j)

(***************************************************************************)
(* Specifications                                                          *)
(***************************************************************************)
InitWriter == WriterStart /\ StatsIdle /\ SemIdle /\ ScrapeIdle /\ SitesIdle /\ TargetsIdle /\ DiscoveryIdle /\ FiltersIdle /\ ExpandIdle /\ DiagIdle
InitStats == StatsStart /\ WriterIdle /\ SemIdle /\ ScrapeIdle /\ SitesIdle /\ TargetsIdle /\ DiscoveryIdle /\ FiltersIdle /\ ExpandIdle /\ DiagIdle
InitSem == SemStart /\ WriterIdle /\ StatsIdle /\ ScrapeIdle /\ SitesIdle /\ TargetsIdle /\ DiscoveryIdle /\ FiltersIdle /\ ExpandIdle /\ DiagIdle
InitScrape == ScrapeStart /\ WriterIdle /\ StatsIdle /\ SemIdle /\ SitesIdle /\ TargetsIdle /\ DiscoveryIdle /\ FiltersIdle /\ ExpandIdle /\ DiagIdle
InitRun == RunStart /\ WriterIdle /\ StatsIdle /\ SemIdle /\ SitesIdle /\ TargetsIdle /\ DiscoveryIdle /\ FiltersIdle /\ ExpandIdle /\ DiagIdle
InitSites == SitesStart /\ WriterIdle /\ StatsIdle /\ SemIdle /\ ScrapeIdle /\ TargetsIdle /\ DiscoveryIdle /\ FiltersIdle /\ ExpandIdle /\ DiagIdle
InitTargets == TargetsStart /\ WriterIdle /\ StatsIdle /\ SemIdle /\ ScrapeIdle /\ SitesIdle /\ DiscoveryIdle /\ FiltersIdle /\ ExpandIdle /\ DiagIdle
InitDiscovery == DiscoveryStart /\ WriterIdle /\ StatsIdle /\ SemIdle /\ ScrapeIdle /\ SitesIdle /\ TargetsIdle /\ FiltersIdle /\ ExpandIdle /\ DiagIdle
InitDiscoveryPair == DiscoveryPairStart /\ WriterIdle /\ StatsIdle /\ SemIdle /\ ScrapeIdle /\ SitesIdle /\ TargetsIdle /\ FiltersIdle /\ ExpandIdle /\ DiagIdle
InitFilters == FiltersStart /\ WriterIdle /\ StatsIdle /\ SemIdle /\ ScrapeIdle /\ SitesIdle /\ TargetsIdle /\ DiscoveryIdle /\ ExpandIdle /\ DiagIdle
InitExpand == ExpandStart /\ WriterIdle /\ StatsIdle /\ SemIdle /\ ScrapeIdle /\ SitesIdle /\ TargetsIdle /\ DiscoveryIdle /\ FiltersIdle /\ DiagIdle
InitSelectors == SelectorsStart /\ WriterIdle /\ StatsIdle /\ SemIdle /\ ScrapeIdle /\ SitesIdle /\ TargetsIdle /\ DiscoveryIdle /\ ExpandIdle /\ DiagIdle
InitDiag == DiagStart /\ WriterIdle /\ StatsIdle /\ SemIdle /\ ScrapeIdle /\ SitesIdle /\ TargetsIdle /\ DiscoveryIdle /\ FiltersIdle /\ ExpandIdle

\* The Writer when file input/output never takes five seconds.
SpecWriterJoined == InitWriter /\ [][NextWriterJoined]_vars

SpecWriter == InitWriter /\ [][NextWriter]_vars

\* The Writer when a write to the output file can fail.
SpecWriterFailing == InitWriter /\ [][NextWriterFailing]_vars

\* The same, when the site pool shuts down and neither the writer thread nor
\* the thread in close is held up for ever.
SpecWriterFailingFair ==
    /\ InitWriter
    /\ [][NextWriterFailing]_vars
    /\ WF_vars(ProducersDone)
    /\ WF_vars(WriterThreadSteps)
    /\ WF_vars(CloseSteps)

\* The Writer without failing writes, under the same scheduling.
SpecWriterFair ==
    /\ InitWriter
    /\ [][NextWriter]_vars
    /\ WF_vars(ProducersDone)
    /\ WF_vars(WriterThreadSteps)
    /\ WF_vars(CloseSteps)

SpecStats == InitStats /\ [][NextStats]_vars

SpecSem == InitSem /\ [][NextSem]_vars

SpecScrape == InitScrape /\ [][NextScrape]_vars

\* The run in which every fetch of a URL has one fixed response.
SpecRun == InitRun /\ [][NextRun]_vars

SpecSites == InitSites /\ [][NextSites]_vars

\* The steps of the reader thread, of the main thread and of the site pool.
ReaderSteps == ReaderRow \/ ReaderEnd

MainSteps ==
    \/ MainSubmit
    \/ MainBreak
    \/ \E i \in 1..Len(r_futures) : MainDrain(i)
    \/ MainEnd

PoolSteps ==
    \/ \E i \in 1..Len(r_futures) : ProcessSiteCall(i)
    \/ \E i \in 1..Len(r_futures) : ProcessSiteReturn(i)
    \/ \E i \in 1..Len(r_futures) : ProcessSiteRaise(i)

\* The site loop when no thread is held up for ever and every call of
\* process_site ends.
SpecSitesFair ==
    /\ InitSites
    /\ [][NextSites]_vars
    /\ WF_vars(ReaderSteps)
    /\ WF_vars(MainSteps)
    /\ WF_vars(PoolSteps)

SpecTargets == InitTargets /\ [][NextTargets]_vars

\* Sitemap discovery of one site.
SpecDiscovery == InitDiscovery /\ [][NextDiscovery]_vars

\* Sitemap discovery of two sites of one host at the same time.
SpecDiscoveryPair == InitDiscoveryPair /\ [][NextDiscovery]_vars

\* One call of a sitemap filter, of the leaf sampling or of a reply parser.
SpecFilters == InitFilters /\ [][NextFilters]_vars

\* Recursive expansion of the sitemaps that robots.txt lists.
SpecExpand == InitExpand /\ [][NextExpand]_vars

\* The same when every fetch returns or times out, so the loop goes on.
SpecExpandFair == InitExpand /\ [][NextExpand]_vars /\ WF_vars(NextExpand)

\* One call of the CSS fallback or of the extraction of sitemap entries.
SpecSelectors == InitSelectors /\ [][NextSelectors]_vars

\* The site jobs of main() and the diagnostics flags of the heuristic fallback.
SpecDiag == InitDiag /\ [][NextDiag]_vars

(***************************************************************************)
(* Claims about the Writer                                                 *)
(***************************************************************************)

\* C1: every record for which submit returned is a line of the output file
\* once close has returned.
C1_NoRecordLost ==
    w_close = "done" => w_submitted \subseteq Range(w_disk)

\* C2: when close has returned, every batch the writer thread wrote is flushed
\* and fsynced, and from then on the output file is not written or fsynced.
C2_DurableAtClose ==
    /\ [](w_close = "done" => (w_fbuf = <<>> /\ w_synced = Len(w_disk)))
    /\ [][w_close = "done" => UNCHANGED <<w_fbuf, w_disk, w_synced>>]_vars

(***************************************************************************)
(* Claims about the StatsCollector                                         *)
(***************************************************************************)

\* The initial snapshot of the run is written.
FirstSnapshotWritten ==
    s_pc[MainThread] \notin {"start_global", "snap_build", "snap_open", "snap_dump"}

\* C3: from the initial snapshot of the run on, a consumer that reads the
\* summary file at any moment reads a complete JSON document, never an empty
\* or partial one.
C3_SummaryAlwaysComplete ==
    FirstSnapshotWritten => Len(s_file) = 1

(***************************************************************************)
(* Claims about the semaphores                                             *)
(***************************************************************************)
IsPrefix(p, q) == Len(p) <= Len(q) /\ \A i \in 1..Len(p) : p[i] = q[i]

SemAllDone == \A s \in SemSites : c_spc[s] = "done"

\* Target t waits for a semaphore whose value is 0.
Blocked(t) ==
    /\ c_tpc[t] = "acquire"
    /\ SemValue(t, AcquireOrder(SemTargetList[t].type)[Len(c_holds[t]) + 1]) = 0

\* C4: every target worker holds its semaphores in the order class semaphore,
\* HTTP semaphore, domain semaphore, and no state of the run before its end is
\* a deadlock: some site or target worker can take a step.
C4_FixedOrderNoDeadlock ==
    /\ \A t \in SemTargets :
          IsPrefix(c_holds[t], <<SemTargetList[t].type, "http", "domain">>)
    /\ ~SemAllDone => ENABLED NextSem

\* Witness of C4: targets of two sites are blocked on semaphores at the same time,
\* one of them on its domain semaphore while it holds the two others.
C4_Witness ==
    \E t, u \in SemTargets :
        /\ SemTargetList[t].site # SemTargetList[u].site
        /\ Blocked(t) /\ Len(c_holds[t]) = 2
        /\ Blocked(u)

\* The targets of domain d that execute their fetch.
Fetching(d) == {t \in SemTargets : SemTargetList[t].domain = d /\ c_tpc[t] = "fetch"}

\* C5: at every moment at most per_domain_cap targets of one domain execute
\* their fetch, counted across all sites.
C5_PerDomainCap ==
    \A d \in Domains : Cardinality(Fetching(d)) <= c_caps["domain"]

(***************************************************************************)
(* Claims about proxy promotion and the target workers                     *)
(***************************************************************************)
\* C6: a host added to proxy_hosts_promoted stays in it for the rest of the
\* run, and promotions made concurrently by different target workers are not
\* lost: the set always holds exactly the hosts that were promoted.
C6_PromotedAddOnly ==
    /\ [][p_promoted \subseteq p_promoted']_vars
    /\ [](p_promoted = p_promotions)

\* The worker of target t made the retry, got entries and has returned.
RetrySucceeded(t) ==
    /\ p_tpc[t] = "returned"
    /\ p_trace[t] = <<"direct", "probe", "browser">>
    /\ p_items[t] # <<>>

\* Two workers that ran at the same time have promoted two different hosts.
C6_Witness ==
    \E t, u \in ScrapeTargets :
        /\ Host(t) # Host(u)
        /\ RetrySucceeded(t) /\ RetrySucceeded(u)
        /\ {Host(t), Host(u)} \subseteq p_promoted

\* The probes the claim calls blocked: redirect, 401, 403, 429, WAF signature.
BlockedProbe(probe) ==
    /\ probe.answered
    /\ \/ probe.waf
       \/ probe.status \in {401, 403, 429}
       \/ (300 <= probe.status /\ probe.status < 400)

\* C7: a worker that started while its host was not promoted makes a browser
\* fetch only after its direct fetch returned no items and its probe of the URL
\* was classified as blocked (redirect, 401, 403, 429 or WAF signature), and it
\* makes at most one such retry.
C7_RetryOnlyWhenBlocked ==
    [][\A t \in ScrapeTargets :
          (~p_after[t] /\ p_trace'[t] = Append(p_trace[t], "browser")) =>
              /\ p_trace[t] = <<"direct", "probe">>
              /\ p_items[t] = <<>>
              /\ BlockedProbe(p_probed[t])]_vars

\* A worker whose host was not promoted has made the retry.
C7_Witness ==
    \E t \in ScrapeTargets :
        ~p_after[t] /\ p_trace[t] = <<"direct", "probe", "browser">>

\* C8: once a browser retry for a target of host D has succeeded, D is promoted,
\* and every worker of a target of D that starts afterwards makes the
\* browser/proxy fetch before any direct fetch and makes no probe.
C8_PromotedGoesProxyFirst ==
    \A t \in ScrapeTargets :
        /\ RetrySucceeded(t) => Host(t) \in p_promoted
        /\ p_after[t] =>
              /\ p_tpc[t] \notin {"direct", "probe", "retry", "promote"}
              /\ p_trace[t] # <<>> => p_trace[t][1] = "browser"
              /\ "probe" \notin Range(p_trace[t])

\* A worker started after the promotion of its host and made the browser/proxy
\* fetch and then the direct fetch.
C8_Witness ==
    \E t \in ScrapeTargets :
        p_after[t] /\ p_trace[t] = <<"browser", "direct">>

RunDone == \A s \in ScrapeSites : p_spc[s] = "done"

\* The one response of a fetch in a run with fixed responses.
Response(outcomes) == CHOOSE r \in outcomes : TRUE

\* What the worker of target t returns, and whether it promotes its host, when
\* it starts with the promoted set `promoted`.
Outcome(t, promoted) ==
    LET d == Response(p_direct[t])
        b == Response(p_browser[t])
        retry == WantsRetry(ClassifyProbe(Response(p_probe[t])))
    IN  IF ProxyFirst(Host(t), promoted)
        THEN [items |-> IF b = "items" THEN Fetched(t, "browser", b)
                        ELSE Fetched(t, "direct", d),
              promotes |-> FALSE]
        ELSE IF d = "items" THEN [items |-> Fetched(t, "direct", d), promotes |-> FALSE]
        ELSE IF retry /\ b = "items"
             THEN [items |-> Fetched(t, "browser", b), promotes |-> TRUE]
        ELSE [items |-> <<>>, promotes |-> FALSE]

\* The records written when the sites run one after the other in stream order,
\* from target t on.
RECURSIVE SequentialWritten(_, _)
SequentialWritten(t, promoted) ==
    IF t > Len(ScrapeTargetList) THEN EmptyBag
    ELSE LET o == Outcome(t, promoted)
         IN  SetToBag(RecordsOf(t, o.items))
             (+) SequentialWritten(t + 1, IF o.promotes
                                          THEN PromotedAfterAdd(promoted, Host(t))
                                          ELSE promoted)

\* The bag of records the run with site_concurrency 1 writes.
SequentialOutput == SequentialWritten(1, {})

\* The run with site_concurrency 1 writes SequentialOutput.
SequentialRunWritesSequentialOutput ==
    (RunDone /\ p_site_pool = 1) => p_written = SequentialOutput

\* C9: with the same stream and the same response to every fetch, a run with
\* any site concurrency writes the same multiset of records as the run with
\* site concurrency 1.
C9_SameMultiset == RunDone => p_written = SequentialOutput

\* The worker of target t raised, or a fetch of it timed out and it returned
\* no items.
Failed(t) ==
    \/ p_failure[t] = "raised"
    \/ p_failure[t] = "timeout" /\ p_items[t] = <<>>

\* C10: a target that raises or times out contributes no item and a recorded
\* failure reason for its site; its siblings complete and have their items
\* written, and the other sites are still processed.
C10_FailureIsolated ==
    /\ \A s \in ScrapeSites : p_spc[s] = "done" =>
          \A t \in TargetsOf(s) :
              /\ Failed(t) =>
                    /\ \A r \in BagToSet(p_written) : r.item.target # t
                    /\ p_reasons[s] # {}
              /\ ~Failed(t) => \A r \in RecordsOf(t, p_items[t]) : BagIn(r, p_written)
    /\ ~RunDone => ENABLED NextScrape

(***************************************************************************)
(* Claims about the browser renders                                        *)
(***************************************************************************)
Rendering == {t \in SemTargets : c_render[t]}

\* C11: the number of headless-browser renders in flight, CSS extractions and
\* browser sitemap fetches alike, is at most css_concurrency.
C11_BrowserRendersBounded == Cardinality(Rendering) <= c_caps["css"]

(***************************************************************************)
(* Claims about the site loop                                              *)
(***************************************************************************)
\* The moves of a site the claim allows.
SiteMoves ==
    {<<"Pending", "Running">>, <<"Running", "Completed">>, <<"Running", "Failed">>}

\* C12: every site moves Pending -> Running -> Completed or Failed: it enters
\* Running at most once in a run, however many rows of the stream carry its URL,
\* and it never leaves Completed or Failed.
C12_SiteStateMachine ==
    /\ [][\A u \in SiteUrls :
            r_state'[u] # r_state[u] => <<r_state[u], r_state'[u]>> \in SiteMoves]_vars
    /\ [](\A u \in SiteUrls : r_started[u] <= 1)

\* Two rows of the stream carry the URL of a site that has reached a terminal
\* state, and the site loop is over.
C12_Witness ==
    \E u \in SiteUrls :
        /\ Cardinality({k \in 1..Len(r_stream) : r_stream[k] = u}) >= 2
        /\ r_state[u] \in {"Completed", "Failed"}
        /\ r_main = "done"

(***************************************************************************)
(* Claims about the targets                                                *)
(***************************************************************************)
\* C13: no sitemap target is built from a leaf selector record whose fields
\* lack a url mapping, whichever detector produced the record.
C13_TargetHasUrlField ==
    \A i \in 1..Len(n_targets) :
        n_targets[i].type = "sitemap" => "url" \in n_targets[i].fields

(***************************************************************************)
(* Claims about sitemap discovery                                          *)
(***************************************************************************)
\* C14: the `site` of every item written is the URL of the site discovery
\* was run for.
C14_ItemSiteIsSeed ==
    \A j \in DiscoveryJobs : d_site[j] # NoUrl => d_site[j] = d_seed[j]

\* C15: the fallback probes make at most one browser fetch per host in a
\* run, over all probe steps and all sites discovered at the same time.
C15_OneBrowserFetchPerHost ==
    \A h \in DiscoveryHosts : d_browser[h] <= 1

\* C16: a robots.txt that answers 3xx, 401 or 403 is fetched with a browser,
\* and robots.txt of a host is fetched with a browser at most once in a run.
C16_RobotsBrowserOncePerHost ==
    /\ ~d_robots_missed
    /\ \A h \in DiscoveryHosts : d_robots_browser[h] <= 1

\* The probes of _fallback_discover_sitemaps in the trace.
IsProbe(e) == e.step \in {"default", "cms", "homepage"}
IsExpansion(e) == e.step \in {"expand", "expand_recent"}
Probes(j) == SelectSeq(d_trace[j], IsProbe)

\* C17: before a CSS fallback is attempted for a site, fallback discovery
\* has probed the site, whichever of the three situations led there.
C17_ProbesBeforeCss ==
    \A j \in DiscoveryJobs : \A k \in 1..Len(d_trace[j]) :
       d_trace[j][k].step = "css"
          => \E i \in 1..(k - 1) :
                d_trace[j][i].step = "default" /\ d_trace[j][i].at = "site"

\* The probe that may run right after a probe that found nothing.
Follows(prev, cur) ==
    \/ prev.step = "default" /\ cur.step = "cms" /\ cur.at = prev.at
    \/ prev.step = "cms" /\ cur.step = "homepage" /\ cur.at = prev.at
    \/ prev.step = "homepage" /\ cur.step = "default" /\ cur.at = "apex"

\* C18: the fallback steps run in the order default paths, CMS paths,
\* homepage links, apex roots, and no step runs after one that found a
\* sitemap.  The probes of one fallback discovery are taken together; the
\* escalation of Step 8, after an expansion without leaves, has the apex
\* roots as its only step and stops at the first root with leaves.
C18_FallbackOrder ==
    \A j \in DiscoveryJobs :
       LET p == Probes(j)
           t == d_trace[j]
       IN  /\ \A k \in 1..Len(p) :
                /\ k < Len(p) => ~p[k].found
                /\ k = 1 => p[k].step = "default" /\ p[k].at = "site"
                /\ k > 1 => Follows(p[k - 1], p[k])
           /\ \A k \in 1..(Len(t) - 1) :
                t[k].step = "apex_expand"
                   => ~t[k].found /\ t[k + 1].step \in {"apex_expand", "css"}

\* The three probes of the site found nothing and the CMS-path probe of an
\* apex root found a sitemap.
C18_Witness ==
    \E j \in DiscoveryJobs :
       LET p == Probes(j) IN
       /\ Len(p) >= 5
       /\ p[Len(p)].found
       /\ p[Len(p)].step = "cms"
       /\ p[Len(p)].at = "apex"

\* C19: the CSS fallback is invoked only when no fallback step found a
\* sitemap; sitemaps found by a step, apex escalation included, are filtered
\* and expanded before any CSS fallback.
C19_CssOnlyAfterAllFailed ==
    \A j \in DiscoveryJobs : \A k \in 1..Len(d_trace[j]) :
       d_trace[j][k].step = "css"
          => \A i \in 1..(k - 1) :
                IsProbe(d_trace[j][i]) /\ d_trace[j][i].found
                   => \E m \in (i + 1)..(k - 1) : IsExpansion(d_trace[j][m])

\* C20: without robots.txt, when the default-path probe finds a sitemap that
\* passes the filters and has an item of today, the CSS fallback is not
\* invoked for the site.
C20_DefaultPathLeafNoCss ==
    \A j \in DiscoveryJobs :
       (/\ Len(d_trace[j]) >= 3
        /\ d_trace[j][1].step = "no_robots"
        /\ d_trace[j][2] = Entry("default", "site", TRUE)
        /\ d_trace[j][3].step = "expand_recent")
          => \A k \in 1..Len(d_trace[j]) : d_trace[j][k].step # "css"

(***************************************************************************)
(* Claims about the sitemap filters and the detector's reply               *)
(***************************************************************************)

\* The nodes of a urlset that are among its first five or its last five.
Sampled(url_nodes) ==
    {i \in DOMAIN url_nodes : i <= 5 \/ i > Len(url_nodes) - 5}

\* The date of an entry: its lastmod, else its publication_date.
EntryDate(url_node) ==
    ParseW3cDatetime(IF url_node.lastmod.kind # "none" THEN url_node.lastmod
                     ELSE url_node.publication_date)

\* C23: a urlset leaf is accepted exactly when some sampled entry has a date
\* whose age is within the recency window and, when a title is required,
\* some sampled entry has a title, headline or name tag with text.
C23_LeafAcceptedIffRecentAndTitled ==
    (f_in.op = "leaf" /\ f_out # <<>>) =>
        (f_out[2].accepted <=>
            /\ \E i \in Sampled(f_in.url_nodes) :
                  /\ EntryDate(f_in.url_nodes[i]) # None
                  /\ f_in.now - Value(EntryDate(f_in.url_nodes[i])) <= f_in.recent_hours
            /\ f_in.require_title =>
                  \E i \in Sampled(f_in.url_nodes) : f_in.url_nodes[i].title = "text")

\* An accepted leaf of two entries: the title is on the entry without a date.
C23_Witness ==
    /\ f_in.op = "leaf" /\ f_out # <<>>
    /\ f_out[2].accepted /\ f_in.require_title
    /\ Len(f_in.url_nodes) = 2
    /\ EntryDate(f_in.url_nodes[1]) = None /\ f_in.url_nodes[1].title = "text"
    /\ f_in.url_nodes[2].title = "none"

\* A year other than the current one can be read somewhere in the text.
ContainsOtherYear(text, current_year) ==
    \E i \in 1 .. Len(text) :
        YearPattern(text, i) /\ YearValue(text, i) # current_year

\* C29: the year filter rejects a URL exactly when the URL contains four
\* digits that read as a year from 1950 to 2039 other than the current year.
C29_YearRejectsIffOtherYear ==
    (f_in.op = "year" /\ f_out # <<>>) =>
        (~f_out[2] <=> ContainsOtherYear(f_in.text, f_in.current_year))

\* A URL kept although a year other than the current one can be read in it.
C29_Counterexample ==
    /\ f_in.op = "year" /\ f_out # <<>>
    /\ f_out[2]
    /\ ContainsOtherYear(f_in.text, f_in.current_year)

\* C30: a URL with a date in it is kept by the date filter exactly when the
\* date is at most hours_threshold hours in the past or at most 24 hours in
\* the future.
C30_UrlDateWindow ==
    (f_in.op = "date" /\ f_out # <<>> /\ ExtractDateFromUrl(f_in.matches) # None) =>
        LET url_date == Value(ExtractDateFromUrl(f_in.matches))
        IN  f_out[2] <=>
                \/ url_date <= f_in.now /\ f_in.now - url_date <= f_in.hours_threshold
                \/ url_date > f_in.now /\ url_date - f_in.now <= 24

\* A URL date a day ahead is kept, whatever the old lastmod says, and the
\* date comes from the second pattern because the first gave no valid date.
C30_Witness ==
    /\ f_in.op = "date" /\ f_out # <<>> /\ f_out[2]
    /\ Len(f_in.matches) = 2 /\ f_in.matches[1] = None
    /\ f_in.matches[2] = Some(f_in.now + 24)
    /\ f_in.xml_lastmod = Some(24)

\* C26: a reply of the detector is accepted only if its fields are not
\* empty, include url, and every field path is a safe tag path.
C26_ReplyValidated ==
    (f_in.op = "reply" /\ f_out # <<>> /\ f_out[2].ok) =>
        /\ DOMAIN f_in.reply.fields # {}
        /\ "url" \in DOMAIN f_in.reply.fields
        /\ \A k \in DOMAIN f_in.reply.fields : f_in.reply.fields[k] = "safe"

\* _parse_llm_response accepts a reply whose fields are empty.
C26_Counterexample ==
    /\ f_in.op = "reply" /\ f_out # <<>>
    /\ f_out[1] = "_parse_llm_response"
    /\ f_out[2].ok
    /\ DOMAIN f_in.reply.fields = {}

(***************************************************************************)
(* Claims about the recursive expansion                                    *)
(***************************************************************************)

\* The child of an index that the expansion handles next.
NextChild == Head(x_stack[Len(x_stack)].children)

\* The first of the three filters that rejects the child, "none" if none does.
RejectingFilter(child) ==
    IF child.url.word # "" THEN "word"
    ELSE IF ~YearKept(child.url.text, ExpandClock.current_year) THEN "year"
    ELSE IF ~FilterByDate(child.url.matches, ExpandClock.recent_hours, TRUE,
                          ParseW3cDatetime(child.lastmod), ExpandClock.now)
    THEN "date"
    ELSE "none"

\* C21: when the expansion handles a child of an index, it fetches only if
\* the child's URL passes the word, year and date filters (the date filter
\* with the child's lastmod); a rejected child is not fetched and is appended
\* to the list of rejected children of the filter that rejected it.
C21_ChildFetchedOnlyIfKept ==
    [][(x_stack # <<>> /\ x_stack[Len(x_stack)].children # <<>>) =>
        IF RejectingFilter(NextChild) = "none"
        THEN x_children' = x_children
        ELSE /\ x_fetched' = x_fetched
             /\ x_children' = [x_children EXCEPT ![RejectingFilter(NextChild)] =
                                   Append(@, NextChild.url.loc)]]_vars

\* /news.xml was rejected as a child for its old lastmod, fetched at depth 1
\* as a child with a recent lastmod, and the child with year 2019 is on the
\* list of the year filter.
C21_Witness ==
    /\ \E k \in DOMAIN x_fetched :
          x_fetched[k].url = LeafMap.loc /\ x_fetched[k].depth = 1
    /\ \E k \in DOMAIN x_children.date : x_children.date[k] = LeafMap.loc
    /\ \E k \in DOMAIN x_children.year : x_children.year[k] = OldYearMap.loc
    /\ \E k \in DOMAIN x_children.word : x_children.word[k] = VideoMap.loc

\* C22: every leaf of the final output passes the word filter, the year
\* filter and the date filter, evaluated on its own at the same instant, with
\* the latest sampled date of the leaf and without it.
C22_FinalLeavesPassFilters ==
    \A k \in DOMAIN x_date_kept :
        LET leaf == x_date_kept[k]
        IN  /\ leaf.word = ""
            /\ YearKept(leaf.text, ExpandClock.current_year)
            /\ FilterByDate(leaf.matches, ExpandClock.recent_hours, TRUE,
                            x_lastmod[leaf.loc], ExpandClock.now)
            /\ FilterByDate(leaf.matches, ExpandClock.recent_hours, TRUE,
                            None, ExpandClock.now)

\* The expansion is done with a leaf in the output.
C22_Witness ==
    /\ x_phase = "done"
    /\ x_date_kept # <<>>
    /\ x_lastmod[x_date_kept[1].loc] # None

\* C24: every URL rejected by a filter, at the level of robots.txt, as a
\* child of an index or in the final filtering, has a record with its url,
\* the filter and a reason.
C24_EveryRejectionRecorded ==
    \A e \in x_log :
        \E k \in DOMAIN RejectionReport :
            /\ RejectionReport[k].url = e.url
            /\ RejectionReport[k].filter = e.filter
            /\ RejectionReport[k].reason # ""

\* C25: no sitemap is fetched at a depth of max_depth or more, and the
\* expansion ends, also when an index lists itself or two list each other.
C25_DepthBoundedAndTerminates ==
    /\ [](\A k \in DOMAIN x_fetched : x_fetched[k].depth < x_max_depth)
    /\ <>(x_phase = "done")

\* The expansion is done after the index that lists itself was fetched at
\* depth 0 and again at depth 1, and the two indexes that list each other
\* were fetched one below the other.
C25_Witness ==
    /\ x_phase = "done"
    /\ \E i, j, k \in DOMAIN x_fetched :
          /\ i < j /\ j < k
          /\ x_fetched[i] = [url |-> RootIndex.loc, depth |-> 0]
          /\ x_fetched[j] = [url |-> RootIndex.loc, depth |-> 1]
          /\ x_fetched[k] = [url |-> NewsIndex.loc, depth |-> 1]

(***************************************************************************)
(* Claims about the fallback detector and the probe of a target            *)
(***************************************************************************)

C28_TerminalAndRetryable ==
    /\ \A t \in ScrapeTargets :
          p_tpc[t] = "retry" =>
              ~(p_probed[t].status \in {401, 403} /\ ~p_probed[t].waf)
    /\ \A t \in ScrapeTargets :
          p_tpc[t] = "probe" =>
              \A probe \in p_probe[t] :
                  (probe.answered /\ (probe.waf \/ probe.status \in {429, 503})) =>
                      WantsRetry(ClassifyProbe(probe))

(***************************************************************************)
(* Claims about the CSS sections and the fields of a sitemap entry         *)
(***************************************************************************)

\* The pages _css_crawler_or_single scans: all of them with the crawler,
\* the homepage alone without.
ScannedCandidates ==
    IF f_in.crawler_enabled THEN f_in.pages[1] \o f_in.pages[2] ELSE f_in.pages[1]

\* C31: given two accepted candidates with the same (title, link) selectors
\* and different confidence, the output of the CSS fallback holds exactly one
\* section of that signature, the one of the higher confidence, whatever the
\* order the candidates were produced in.
C31_DuplicateKeepsHigherConfidence ==
    (f_in.op = "css" /\ f_out # <<>>) =>
        \A i, j \in DOMAIN ScannedCandidates :
            LET a == ScannedCandidates[i]
                b == ScannedCandidates[j]
                kept == SelectSeq(f_out[2], LAMBDA s : Signature(s) = Signature(a))
            IN  (Signature(a) = Signature(b) /\ a.confidence > b.confidence) =>
                    /\ Len(kept) = 1
                    /\ kept[1].confidence >= a.confidence

\* The call applies fields = {"url": "loc"} to a <url><loc>X</loc></url> node
\* without a date window, as the pipelines call it.
UrlLocCall ==
    /\ f_in.op = "entries" /\ f_out # <<>>
    /\ f_in.recent_hours = 0
    /\ f_in.field_selectors = <<[field |-> "url", xpath |-> <<"loc">>]>>
    /\ Len(f_in.u.children) = 1
    /\ f_in.u.children[1].tag = "loc"

\* The text X of the <loc> of the call.
LocText == f_in.u.children[1].text

\* C33 as stated: fields = {"url": "loc"} applied to <url><loc>X</loc></url>
\* yields an item whose url is exactly X (for an X that is not blank).
C33_UrlIsExactlyLocText ==
    (UrlLocCall /\ Strip(LocText) # <<>>) =>
        f_out[2] = << <<[field |-> "url", value |-> LocText]>> >>

\* C33, amended: fields = {"url": "loc"} applied to <url><loc>X</loc></url>
\* yields one item whose url is X without its leading and trailing blanks,
\* and no item when X is blank.
C33_UrlIsStrippedLocText ==
    UrlLocCall =>
        IF Strip(LocText) = <<>> THEN f_out[2] = <<>>
        ELSE f_out[2] = << <<[field |-> "url", value |-> Strip(LocText)]>> >>

\* An item was extracted from a <loc> whose text has a blank at an end.
C33_Witness ==
    /\ UrlLocCall
    /\ LocText # Strip(LocText)
    /\ Len(f_out[2]) = 1

(***************************************************************************)
(* Claims about the summary snapshots of the StatsCollector                *)
(***************************************************************************)

\* C32: each time the number of completed sites has grown by the interval N
\* since the last snapshot, the summary file is rewritten: once no site worker
\* is between its record_site and the end of process_site, fewer than N sites
\* have completed since the last snapshot, whatever the targets of the sites.
C32_SnapshotEveryNSites ==
    (s_interval > 0 /\ \A t \in Sites : s_pc[t] \in {"idle", "done"}) =>
        s_total_sites < s_last_snapshot + s_interval

\* C36: the totalSitesProcessed and totalArticles of the summary file never
\* decrease from one completed write of the file to the next, also when
\* several site workers write snapshots at the same time.
C36_SummaryNeverDecreases ==
    [][(s_file # <<>> /\ s_file' # <<>>) =>
          /\ s_file'[1].totalSitesProcessed >= s_file[1].totalSitesProcessed
          /\ s_file'[1].totalArticles >= s_file[1].totalArticles]_vars

\* The sum of the four counters of sitesByApproach of a summary.
ApproachSum(summary) ==
    summary.sitesByApproach["sitemapOnly"] + summary.sitesByApproach["cssOnly"]
    + summary.sitesByApproach["both"] + summary.sitesByApproach["none"]

\* A summary is internally consistent.
Consistent(summary) ==
    /\ summary.totalArticles =
           summary.articlesBySource["sitemap"] + summary.articlesBySource["css"]
    /\ summary.totalSitesProcessed = ApproachSum(summary)

\* The number of record_site calls that have completed.
RecordSiteCalls == Cardinality({t \in Sites : s_pc[t] # "idle"})

\* C37: every summary snapshot is internally consistent under any interleaving
\* of record_site calls: totalArticles is articlesBySource.sitemap plus
\* articlesBySource.css, and totalSitesProcessed is the sum of the four
\* sitesByApproach counters and, when the snapshot is built, the number of
\* record_site calls completed so far.
C37_SnapshotConsistent ==
    /\ [](/\ \A t \in StatsThreads : s_local[t] # <<>> => Consistent(s_local[t][1])
          /\ s_file # <<>> => Consistent(s_file[1]))
    /\ [][\A t \in StatsThreads :
              (s_local[t] = <<>> /\ s_local'[t] # <<>>) =>
                  s_local'[t][1].totalSitesProcessed = RecordSiteCalls]_vars

\* A snapshot written by a site worker counts two sites and some article
\* while the other site worker has not finished process_site.
C37_Witness ==
    /\ s_file # <<>>
    /\ s_file[1].totalSitesProcessed = 2
    /\ s_file[1].totalArticles > 0
    /\ \E t \in Sites : s_pc[t] \notin {"idle", "done"}

(***************************************************************************)
(* Claims about the totals of a run                                        *)
(***************************************************************************)

\* The records handed to writer.submit for site s with source type src.
Submitted(s, src) ==
    {r \in BagToSet(p_written) : r.site = s /\ r.sourceType = src}

\* The number of copies of the records of `S` in the bag p_written.
RECURSIVE Copies(_)
Copies(S) ==
    IF S = {} THEN 0
    ELSE LET r == CHOOSE x \in S : TRUE
         IN  CopiesIn(r, p_written) + Copies(S \ {r})

\* C38: at the end of a run the totalArticles of the summary is the number of
\* records submitted to the writer, and for each site the itemsBySource
\* recorded is the number of records of that site submitted per source type.
C38_TotalsMatchSubmitted ==
    RunDone =>
        /\ Summary.totalArticles = BagCardinality(p_written)
        /\ \A s \in ScrapeSites : \A src \in Sources :
               p_by_source[s][src] = Copies(Submitted(s, src))

\* The run has ended, records of both source types were submitted and a
\* target worker raised.
C38_Witness ==
    /\ RunDone
    /\ \A src \in Sources : \E r \in BagToSet(p_written) : r.sourceType = src
    /\ \E t \in ScrapeTargets : p_failure[t] = "raised"

(***************************************************************************)
(* Claims about Writer.close                                               *)
(***************************************************************************)

\* C34: Writer.close always returns: it cannot wait for ever for the queue or
\* for the writer thread, also when a write to the output file fails or the
\* output file could not be opened at start.
C34_CloseReturns == <>(w_close = "done")

(***************************************************************************)
(* Claims about the once mode of the site loop                             *)
(***************************************************************************)

\* The site URLs of the rows of the stream that _is_allowed accepts.
AllowedSites == {r_stream[k] : k \in 1..Len(r_stream)} \cap r_allowed

\* The sites of the rows handed to site_pool.submit(process_site, row).
HandedSites == {r_futures[i].site : i \in 1..Len(r_futures)}

NestedRuns(j) ==
    Cardinality({k \in 1..Len(d_trace[j]) : d_trace[j][k].step = "apex_expand"})

\* Hosts of up to four labels, with and without a public suffix of two labels.
EscalationHosts == SeqsUpTo({"www", "news", "ex", "co", "uk"}, 4)

\* No apex root of any of these hosts has apex roots of its own.
ApexRootsSettle ==
    \A host \in EscalationHosts :
        \A root \in Range(ApexRoots(Url("https", host))) : ApexRoots(root) = <<>>

\* C40: the apex escalation re-runs discovery at most one level deep: a run
\* started on an apex root has no apex roots of its own and starts no run,
\* and a site has at most one nested run per apex root.
C40_ApexEscalationOneLevel ==
    \A j \in DiscoveryJobs :
        /\ Len(d_stack[j]) <= 2
        /\ Len(d_stack[j]) = 2 =>
              /\ ApexRootsSettle
              /\ ApexRoots(Top(j).url) = <<>>
              /\ Top(j).pc = "step8" => Top(j).roots = <<>>
        /\ d_seed[j] # NoUrl => NestedRuns(j) <= Len(ApexRoots(d_seed[j]))

\* Discovery has ended after the nested runs of all three apex roots.
C40_Witness ==
    \E j \in DiscoveryJobs :
        /\ d_stack[j] = <<>>
        /\ d_result[j] # NoResult
        /\ NestedRuns(j) = 3

\* C39: the heuristic-fallback diagnostics recorded for a site (block
\* detected, browser retry attempted, browser retry status) are those of the
\* probing done in the fallback discovery of that site, whatever is probed
\* for other sites at the same time.
C39_DiagnosticsOfOwnProbing ==
    \A j \in DiscoveryJobs :
        g_recorded[j] # <<>> => g_recorded[j][1] = Diagnostics(g_own[j])

====
